---- MODULE Spec2Model ----
(***************************************************************************)
(* Model of the helm-operator reconciliation engine.                       *)
(*                                                                         *)
(* Two specifications share this module:                                   *)
(*   Spec      the work-queue controller: informer event handlers, the     *)
(*             rate limited work queue, N workers running                  *)
(*             processNextWorkItem / syncHandler, the per-name lock file.  *)
(*             Release.Sync is entered and left by a worker; its outcome   *)
(*             (error or nil) is every outcome SpecSync can produce.       *)
(*   SpecSync  one syncHandler call that reaches Release.Sync, step by     *)
(*             step: prepareChart, composeValues, determineSyncAction,     *)
(*             the action loop of Release.run, the deferred                *)
(*             SetObservedGeneration and the event of syncHandler.         *)
(***************************************************************************)
EXTENDS Integers, Sequences, FiniteSets, TLC

(***************************************************************************)
(* Bounds                                                                  *)
(***************************************************************************)
\* number of workers started by Run (threadiness)
Threadiness == 2
\* number of informer events delivered in one behaviour
MaxEvents == 3
\* largest metadata.generation of the HelmRelease given to Sync
MaxGeneration == 1
\* largest version of a Helm release
MaxVersion == 2

(***************************************************************************)
(* Custom resources: (namespace, name) pairs, names spelled as sequences   *)
(* of characters so that the lock-file name can be computed as the code    *)
(* computes it.                                                            *)
(***************************************************************************)
CRs ==
    { << <<"a">>, <<"c">> >>,
      << <<"a">>, <<"b", "-", "c">> >>,
      << <<"a", "-", "b">>, <<"c">> >> }

Workers == 1..Threadiness
NoKey == << >>

\* the workqueue holds interface{} values: the keys of the CRs, which are
\* strings, and, for the guard of processNextWorkItem, a value that is not
NotAString == << <<"4", "2">> >>
Items == CRs \cup {NotAString}

ReleaseSynced == "ReleaseSynced"
FailedReleaseSync == "FailedReleaseSync"
NoEvent == "none"

(***************************************************************************)
(* HelmRelease phases (hr.Status.Phase)                                    *)
(***************************************************************************)
NoPhase == ""
Phases ==
    { "ChartFetched", "ChartFetchFailed", "Installing", "Upgrading",
      "Migrating", "Testing", "TestFailed", "Tested", "RollingBack",
      "RolledBack", "RollbackFailed", "DeployFailed", "Deployed",
      "Succeeded", "Failed" }
\* the marker written by SetObservedGeneration, as an entry of writes
ObservedGenerationWrite == "observedGeneration"

\* chart revisions; the empty string is a status that has no revision yet
NoRevision == ""
Revisions == { "1.0.0", "1.1.0" }
NoChart == [revision |-> NoRevision, changed |-> FALSE]

\* actions of the release cycle
InstallAction == "install"
UpgradeAction == "upgrade"
MigrateAction == "migrate"
SkipAction == "skip"
RollbackAction == "rollback"
UninstallAction == "uninstall"
DryRunCompareAction == "dry-run-compare"
AnnotateAction == "annotate"
TestAction == "test"
NoAction == ""

\* Helm releases: nil, or a release with its version, its status and the
\* resource its antecedent annotation names
Versions == 1..MaxVersion
NilRelease == [nil |-> TRUE, Version |-> 0, Status |-> "", managedBy |-> ""]
\* client.Get has not been called
NoGet == [failed |-> FALSE, rel |-> NilRelease]
\* the converter, the retry policy and client.History have not been asked
NoAnswers == [v2ReleaseExists |-> [failed |-> TRUE, exists |-> FALSE],
              shouldRetryUpgrade |-> FALSE,
              hist |-> [failed |-> TRUE, hist |-> << >>]]
\* the latest release of a name, as client.Get returns it: deployed, or in
\* the middle of an upgrade
Releases ==
    [nil : {FALSE}, Version : Versions, Status : {"deployed", "pending-upgrade"},
     managedBy : {"self", "other", "error"}]

\* chart sources a spec may carry (each present with its required fields)
ChartSources == { "git", "repo", "customize", "oss" }
ChartSourceConfigs == { {}, {"git"}, {"repo", "oss"} }

\* namespaces of the cluster that hold workloads: the namespace of the
\* HelmRelease and another one
HrNamespace == "ns1"
LiveNamespaces == { "ns1", "ns2" }

VARIABLES
    hrLister,      \* informer cache: the CRs the lister returns
    informer,      \* the informer's handler goroutine: idle or in the Delete handler
    nEvents,       \* informer events delivered so far
    queue,         \* releaseWorkqueue: FIFO of keys ready for Get
    dirty,         \* releaseWorkqueue: keys that need processing
    processing,    \* releaseWorkqueue: keys handed to a worker and not yet Done
    delayed,       \* releaseWorkqueue: keys waiting for their rate-limit delay
    failures,      \* releaseWorkqueue rate limiter: requeue count per key
    mutex,         \* lock files: lock name -> the workers holding its lock
    wpc,           \* per worker: position in processNextWorkItem / syncHandler
    wkey,          \* per worker: key obtained by Get
    wret,          \* per worker: value returned by syncHandler ("nil" or "err")
    wsyncErr,      \* per worker: Release.Sync returned an error for the item
    wevent,        \* per worker: event recorded by syncHandler for the item
    update         \* informer: the last update event handled and its outcome

VARIABLES
    stopCh,        \* Run: the stop channel is closed
    rpc,           \* Run: position of the goroutine that called Run
    wg,            \* Run: count of the wait group, one per worker started
    shuttingDown   \* releaseWorkqueue: ShutDown has been called

runVars == << stopCh, rpc, wg, shuttingDown >>

ctlVars == << hrLister, informer, nEvents, queue, dirty, processing, delayed,
              failures, mutex, wpc, wkey, wret, wsyncErr, wevent, update,
              runVars >>

VARIABLES
    spc,           \* position in syncHandler / Release.Sync
    hr,            \* the HelmRelease copy given to Sync: generation, annotations, spec
    status,        \* hr.Status as written through the status writer
    chart,         \* chart returned by prepareChart
    action,        \* run: the action the loop is at
    curRel,        \* run: current release returned by determineSyncAction
    newRel,        \* run: the call that produced newRel, "nil" before any
    errs,          \* run: errCollection
    err,           \* Sync: the error returned, << >> for nil
    writes,        \* status writes of this invocation, in order
    visited,       \* actions the loop of run has executed, in order
    calls,         \* calls made to Helm, the converter, kubectl and the git mirror
    event,         \* reason of the event recorded by syncHandler
    getResult,     \* determineSyncAction: what client.Get answered
    runDiff,       \* run: the diff returned by dryRunCompare, "" when empty
    latestRel,     \* run: the answer of client.Get for the latest release
    answers,       \* determineSyncAction as a function: the answers of
                   \* V2ReleaseExists, ShouldRetryUpgrade and client.History
    warned         \* run: the warnings logged, in order

syncVars == << spc, hr, status, chart, action, curRel, newRel, errs, err,
               writes, visited, calls, event, getResult, runDiff, latestRel, answers,
               warned >>

VARIABLES
    ppc,           \* post-renderer: position in the handling of the document
    rendered,      \* post-renderer: the document given to the run
    pass,          \* post-renderer: 1 for the run on the rendered manifest, 2
                   \* for the run on its own output
    helmReleaseSpec, \* post-renderer: hr.Spec (IstioEnabled, LogCollect)
    u,             \* post-renderer: the document being handled
    modified,      \* post-renderer: the documents emitted, one per run
    live,          \* cluster: namespace -> the live workload of the name
    getFails,      \* cluster: the Get of the live object fails
    deleteFails,   \* cluster: the Delete of a live object fails
    inspected,     \* post-renderer: objects whose template labels were read
    deleted,       \* post-renderer: objects for which Delete was called
    polled,        \* post-renderer: outcome of the wait after each Delete
    logged         \* post-renderer: errors logged with klog.Error

renderVars == << ppc, rendered, pass, helmReleaseSpec, u, modified, live, getFails,
                 deleteFails, inspected, deleted, polled, logged >>

VARIABLES
    opc,           \* provider: position in DownloadFile
    hrSpecOss,     \* provider: hr.Spec.Oss of the CR (AckEncrypted, AckId, AckSecret)
    oss,           \* provider: the Oss of the provider, a copy of hr.Spec.Oss
    useCache,      \* provider: the useCache argument of the calls
    cacheFile,     \* provider: the cache file of the key exists
    ncalls,        \* provider: DownloadFile calls started
    fetches,       \* provider: per call, the network fetches it performed
    sdk,           \* provider: credentials handed to the SDK, in order
    results        \* provider: per call "ok" or the error returned

ossVars == << opc, hrSpecOss, oss, useCache, cacheFile, ncalls, fetches, sdk, results >>

libVars == << renderVars, ossVars >>

vars == << ctlVars, syncVars, libVars >>

(***************************************************************************)
(* syncHandler: fmt.Sprintf("%s-%s", namespace, name)                      *)
(***************************************************************************)
LockName(namespace, name) == namespace \o <<"-">> \o name

LockOf(key) == LockName(key[1], key[2])

LockNames == { LockOf(k) : k \in CRs }

Idle == [handler |-> "idle", key |-> NoKey]

\* objects an update event may carry: HelmReleases, told apart by their
\* Spec and their Status, and an object of another type
HelmReleaseObjects == [kind : {"HelmRelease"}, Spec : 1..2, Status : 1..2]
OtherObject == [kind |-> "Pod", Spec |-> 1, Status |-> 1]
Objects == HelmReleaseObjects \cup {OtherObject}
NoUpdate == [handled |-> FALSE, old |-> OtherObject, new |-> OtherObject,
             enqueued |-> FALSE]

ControllerIdle ==
    /\ hrLister = {}
    /\ informer = Idle
    /\ nEvents = 0
    /\ queue = << >>
    /\ dirty = {}
    /\ processing = {}
    /\ delayed = {}
    /\ failures = [k \in CRs |-> 0]
    /\ mutex = [l \in LockNames |-> {}]
    /\ wpc = [w \in Workers |-> "get"]
    /\ wkey = [w \in Workers |-> NoKey]
    /\ wret = [w \in Workers |-> "nil"]
    /\ wsyncErr = [w \in Workers |-> FALSE]
    /\ wevent = [w \in Workers |-> NoEvent]
    /\ update = NoUpdate
    /\ stopCh = FALSE
    /\ rpc = "stopCh"
    /\ wg = Threadiness
    /\ shuttingDown = FALSE

SyncIdle ==
    /\ spc = "idle"
    /\ hr = [Generation |-> 1, migrate |-> "absent", HelmVersion |-> "v3",
             Test |-> [Enable |-> FALSE, IgnoreFailures |-> FALSE],
             Rollback |-> [Enable |-> FALSE], sources |-> {}]
    /\ status = [Phase |-> NoPhase, ObservedGeneration |-> 0,
                 LastAttemptedRevision |-> NoRevision, RolledBack |-> FALSE]
    /\ chart = NoChart
    /\ action = NoAction
    /\ curRel = NilRelease
    /\ newRel = "nil"
    /\ errs = << >>
    /\ err = << >>
    /\ writes = << >>
    /\ visited = << >>
    /\ calls = << >>
    /\ event = NoEvent
    /\ getResult = NoGet
    /\ runDiff = ""
    /\ latestRel = NoGet
    /\ answers = NoAnswers
    /\ warned = << >>


\* no document is being post-rendered
NoDoc == [kind |-> "", namespace |-> "", labels |-> << >>, annotations |-> << >>,
          matchLabels |-> << >>, templateLabels |-> << >>]

RenderIdle ==
    /\ ppc = "idle"
    /\ rendered = NoDoc
    /\ pass = 1
    /\ helmReleaseSpec = [AppId |-> "", ComponentId |-> "",
                          IstioEnabled |-> FALSE, LogCollect |-> FALSE]
    /\ u = NoDoc
    /\ modified = << >>
    /\ live = [ns \in LiveNamespaces |-> "absent"]
    /\ getFails = FALSE
    /\ deleteFails = FALSE
    /\ inspected = << >>
    /\ deleted = << >>
    /\ polled = << >>
    /\ logged = << >>

\* a credential as the CR gives it: a text in the clear
Plain(text) == [form |-> "plain", text |-> text]

OssIdle ==
    /\ opc = "idle"
    /\ hrSpecOss = [AckEncrypted |-> FALSE, AckId |-> Plain("id"), AckSecret |-> Plain("secret")]
    /\ oss = hrSpecOss
    /\ useCache = FALSE
    /\ cacheFile = FALSE
    /\ ncalls = 0
    /\ fetches = << >>
    /\ sdk = << >>
    /\ results = << >>

LibIdle == RenderIdle /\ OssIdle

Init ==
    /\ ControllerIdle
    /\ SyncIdle
    /\ LibIdle

(***************************************************************************)
(* releaseWorkqueue (k8s.io/client-go/util/workqueue), as the controller   *)
(* uses it.                                                                *)
(***************************************************************************)
\* Add: dropped once the queue is shutting down; a key already dirty is
\* dropped; a key being processed is only marked dirty and is queued again
\* by Done.
QueueAdd(k) ==
    IF shuttingDown \/ k \in dirty
    THEN UNCHANGED << queue, dirty >>
    ELSE /\ dirty' = dirty \cup {k}
         /\ queue' = IF k \in processing THEN queue ELSE Append(queue, k)

\* enqueueJob: AddRateLimited(key) asks the rate limiter for the delay of
\* the key (which counts one more requeue) and adds the key after it; a
\* queue that is shutting down takes no key.
enqueueJob(k) ==
    /\ failures' = [failures EXCEPT ![k] = @ + 1]
    /\ delayed' = IF shuttingDown THEN delayed ELSE delayed \cup {k}

\* the delay of a key added with AddRateLimited is over: the key is Added
DelayExpire(k) ==
    /\ k \in delayed
    /\ delayed' = delayed \ {k}
    /\ QueueAdd(k)
    /\ UNCHANGED << hrLister, informer, nEvents, processing, failures, mutex,
                    wpc, wkey, wret, wsyncErr, wevent >>
    /\ UNCHANGED << update, runVars, syncVars, libVars >>

(***************************************************************************)
(* Informer event handlers registered by New.  The handlers of an informer *)
(* run one after the other on one goroutine.                               *)
(***************************************************************************)
\* AddFunc: enqueueJob(new)
AddFunc(k) ==
    /\ informer.handler = "idle"
    /\ nEvents < MaxEvents
    /\ k \notin hrLister
    /\ hrLister' = hrLister \cup {k}
    /\ nEvents' = nEvents + 1
    /\ enqueueJob(k)
    /\ UNCHANGED << informer, queue, dirty, processing, mutex,
                    wpc, wkey, wret, wsyncErr, wevent >>
    /\ UNCHANGED << update, runVars, syncVars, libVars >>

\* checkCustomResourceType: obj.(*helmfluxv1.HelmRelease)
checkCustomResourceType(obj) == obj.kind = "HelmRelease"

\* cmp.Diff: the empty string exactly when the two values are equal
cmpDiff(x, y) == IF x = y THEN "" ELSE "diff"

\* enqueueUpdateJob without the test of the status diff
enqueueUpdateJobDroppingResync(k, old, new) ==
    IF ~checkCustomResourceType(old) \/ ~checkCustomResourceType(new)
    THEN UNCHANGED << failures, delayed >>
    ELSE IF cmpDiff(old.Spec, new.Spec) = ""
         THEN UNCHANGED << failures, delayed >>
         ELSE enqueueJob(k)

\* enqueueUpdateJob: an update whose old or new object is not a HelmRelease
\* is dropped; so is one whose spec diff is empty and whose status diff is
\* not; every other update is enqueued. SyncMirror, called when the chart
\* source changed, changes no state of the controller.
enqueueUpdateJob(k, old, new) ==
    IF ~checkCustomResourceType(old)
    THEN UNCHANGED << failures, delayed >>
    ELSE IF ~checkCustomResourceType(new)
         THEN UNCHANGED << failures, delayed >>
         ELSE IF cmpDiff(old.Spec, new.Spec) = ""
                 /\ cmpDiff(old.Status, new.Status) # ""
              THEN UNCHANGED << failures, delayed >>
              ELSE enqueueJob(k)

\* UpdateFunc: controller.enqueueUpdateJob(old, new)
UpdateHandler(k, old, new) ==
    /\ informer.handler = "idle"
    /\ nEvents < MaxEvents
    /\ k \in hrLister
    /\ nEvents' = nEvents + 1
    /\ enqueueUpdateJob(k, old, new)
    /\ UNCHANGED << hrLister, informer, queue, dirty, processing, mutex,
                    wpc, wkey, wret, wsyncErr, wevent >>
    /\ UNCHANGED << runVars, syncVars, libVars >>

UpdateFunc(k) ==
    /\ \E old \in Objects, new \in Objects : UpdateHandler(k, old, new)
    /\ UNCHANGED update

\* UpdateFunc, with the event and whether AddRateLimited was called for
\* its key kept in update
UpdateFuncObserved(k) ==
    \E old \in Objects, new \in Objects :
        /\ UpdateHandler(k, old, new)
        /\ update' = [handled |-> TRUE, old |-> old, new |-> new,
                      enqueued |-> failures'[k] = failures[k] + 1]

\* DeleteFunc: controller.release.Uninstall(hr.DeepCopy()) is called from
\* the handler itself; no lock is taken and nothing is enqueued.
\* Release.Uninstall returns at once when no Helm client is found.
DeleteFunc(k) ==
    /\ informer.handler = "idle"
    /\ nEvents < MaxEvents
    /\ k \in hrLister
    /\ hrLister' = hrLister \ {k}
    /\ nEvents' = nEvents + 1
    /\ \E clientFound \in BOOLEAN :
         informer' = IF clientFound
                     THEN [handler |-> "Uninstall", key |-> k]
                     ELSE Idle
    /\ UNCHANGED << queue, dirty, processing, delayed, failures, mutex,
                    wpc, wkey, wret, wsyncErr, wevent >>
    /\ UNCHANGED << update, runVars, syncVars, libVars >>

\* Release.Uninstall (run with UninstallAction) returns to the Delete handler
UninstallReturn ==
    /\ informer.handler = "Uninstall"
    /\ informer' = Idle
    /\ UNCHANGED << hrLister, nEvents, queue, dirty, processing, delayed,
                    failures, mutex, wpc, wkey, wret, wsyncErr, wevent >>
    /\ UNCHANGED << update, runVars, syncVars, libVars >>

(***************************************************************************)
(* Workers: runWorker -> processNextWorkItem -> syncHandler                *)
(***************************************************************************)
\* processNextWorkItem: obj, shutdown := c.releaseWorkqueue.Get()
\* (blocks while the queue is empty), then syncHandler(key) is entered if
\* key, ok = obj.(string) is ok; an item that is no string goes to Forget
\* and return nil without syncHandler.
WorkerGet(w) ==
    /\ wpc[w] = "get"
    /\ queue # << >>
    /\ LET k == Head(queue) IN
         /\ queue' = Tail(queue)
         /\ processing' = processing \cup {k}
         /\ dirty' = dirty \ {k}
         /\ wkey' = [wkey EXCEPT ![w] = k]
    /\ wpc' = [wpc EXCEPT ![w] = IF Head(queue) \in CRs THEN "lock" ELSE "result"]
    /\ wret' = [wret EXCEPT ![w] = "nil"]
    /\ wsyncErr' = [wsyncErr EXCEPT ![w] = FALSE]
    /\ wevent' = [wevent EXCEPT ![w] = NoEvent]
    /\ UNCHANGED << hrLister, informer, nEvents, delayed, failures, mutex >>
    /\ UNCHANGED << update, runVars, syncVars, libVars >>

\* lockedfile.Mutex.Lock on the lock file: waits until no one holds the
\* lock of that file, or fails with an error of the file system.
MutexLock(w, l, ok) ==
    IF ok
    THEN /\ mutex[l] = {}
         /\ mutex' = [mutex EXCEPT ![l] = @ \cup {w}]
    ELSE UNCHANGED mutex

\* unlock(): the lock of the file is released
MutexUnlock(w, l) ==
    mutex' = [mutex EXCEPT ![l] = @ \ {w}]

\* SyncHandlerLock with the lock given back at once instead of deferred:
\* the handler goes on without holding the lock
SyncHandlerLockNotHeld(w) ==
    /\ wpc[w] = "lock"
    /\ \E ok \in BOOLEAN :
         wpc' = [wpc EXCEPT ![w] = IF ok THEN "lister" ELSE "result"]
    /\ wret' = [wret EXCEPT ![w] = "nil"]
    /\ UNCHANGED << hrLister, informer, nEvents, queue, dirty, processing,
                    delayed, failures, mutex, wkey, wsyncErr, wevent >>
    /\ UNCHANGED << update, runVars, syncVars, libVars >>

\* SyncHandlerLock with the error of c.lock returned to the worker
SyncHandlerLockErrorReturned(w) ==
    /\ wpc[w] = "lock"
    /\ \E ok \in BOOLEAN :
         /\ MutexLock(w, LockOf(wkey[w]), ok)
         /\ wpc' = [wpc EXCEPT ![w] = IF ok THEN "lister" ELSE "result"]
         /\ wret' = [wret EXCEPT ![w] = IF ok THEN "nil" ELSE "err"]
    /\ UNCHANGED << hrLister, informer, nEvents, queue, dirty, processing,
                    delayed, failures, wkey, wsyncErr, wevent >>
    /\ UNCHANGED << update, runVars, syncVars, libVars >>

\* syncHandler: unlock, err := c.lock(namespace-name); on error it logs and
\* returns nil without deferring any unlock.
SyncHandlerLock(w) ==
    /\ wpc[w] = "lock"
    /\ \E ok \in BOOLEAN :
         /\ MutexLock(w, LockOf(wkey[w]), ok)
         /\ wpc' = [wpc EXCEPT ![w] = IF ok THEN "lister" ELSE "result"]
    /\ wret' = [wret EXCEPT ![w] = "nil"]
    /\ UNCHANGED << hrLister, informer, nEvents, queue, dirty, processing,
                    delayed, failures, wkey, wsyncErr, wevent >>
    /\ UNCHANGED << update, runVars, syncVars, libVars >>

\* syncHandler: hr, err := c.hrLister.HelmReleases(namespace).Get(name)
\*   not found   -> return nil
\*   other error -> return err
\*   found       -> c.release.Sync(hr.DeepCopy()) is called
SyncHandlerGet(w) ==
    /\ wpc[w] = "lister"
    /\ \/ /\ wkey[w] \notin hrLister
          /\ wpc' = [wpc EXCEPT ![w] = "return"]
          /\ wret' = [wret EXCEPT ![w] = "nil"]
       \/ /\ wpc' = [wpc EXCEPT ![w] = "return"]
          /\ wret' = [wret EXCEPT ![w] = "err"]
       \/ /\ wkey[w] \in hrLister
          /\ wpc' = [wpc EXCEPT ![w] = "Sync"]
          /\ UNCHANGED wret
    /\ UNCHANGED << hrLister, informer, nEvents, queue, dirty, processing,
                    delayed, failures, mutex, wkey, wsyncErr, wevent >>
    /\ UNCHANGED << update, runVars, syncVars, libVars >>

\* syncHandler: err = c.release.Sync(...) returns; a Warning
\* FailedReleaseSync event is recorded on error and a Normal ReleaseSynced
\* event otherwise; syncHandler then returns nil on both branches.
SyncHandlerSync(w) ==
    /\ wpc[w] = "Sync"
    /\ \E failed \in BOOLEAN :
         /\ wsyncErr' = [wsyncErr EXCEPT ![w] = failed]
         /\ wevent' = [wevent EXCEPT ![w] =
                          IF failed THEN FailedReleaseSync ELSE ReleaseSynced]
    /\ wret' = [wret EXCEPT ![w] = "nil"]
    /\ wpc' = [wpc EXCEPT ![w] = "return"]
    /\ UNCHANGED << hrLister, informer, nEvents, queue, dirty, processing,
                    delayed, failures, mutex, wkey >>
    /\ UNCHANGED << update, runVars, syncVars, libVars >>

\* SyncHandlerReturn with unlock() called on the success path only instead
\* of deferred
SyncHandlerReturnUnlockOnSuccess(w) ==
    /\ wpc[w] = "return"
    /\ IF wevent[w] = ReleaseSynced
       THEN MutexUnlock(w, LockOf(wkey[w]))
       ELSE UNCHANGED mutex
    /\ wpc' = [wpc EXCEPT ![w] = "result"]
    /\ UNCHANGED << hrLister, informer, nEvents, queue, dirty, processing,
                    delayed, failures, wkey, wret, wsyncErr, wevent >>
    /\ UNCHANGED << update, runVars, syncVars, libVars >>

\* syncHandler returns: the deferred unlock() runs
SyncHandlerReturn(w) ==
    /\ wpc[w] = "return"
    /\ MutexUnlock(w, LockOf(wkey[w]))
    /\ wpc' = [wpc EXCEPT ![w] = "result"]
    /\ UNCHANGED << hrLister, informer, nEvents, queue, dirty, processing,
                    delayed, failures, wkey, wret, wsyncErr, wevent >>
    /\ UNCHANGED << update, runVars, syncVars, libVars >>

\* ProcessResult with Forget called for keys only
ProcessResultForgetsKeysOnly(w) ==
    /\ wpc[w] = "result"
    /\ failures' = IF wret[w] = "err" \/ wkey[w] \notin CRs
                   THEN failures
                   ELSE [failures EXCEPT ![wkey[w]] = 0]
    /\ wpc' = [wpc EXCEPT ![w] = "Done"]
    /\ UNCHANGED << hrLister, informer, nEvents, queue, dirty, processing,
                    delayed, mutex, wkey, wret, wsyncErr, wevent >>
    /\ UNCHANGED << update, runVars, syncVars, libVars >>

\* processNextWorkItem, after syncHandler: an error is returned to
\* runtime.HandleError without Forget and without adding the key again;
\* on nil the key is Forgotten (its requeue count is reset).  An item that
\* is no string is Forgotten here too.
ProcessResult(w) ==
    /\ wpc[w] = "result"
    /\ failures' = IF wret[w] = "err"
                   THEN failures
                   ELSE [failures EXCEPT ![wkey[w]] = 0]
    /\ wpc' = [wpc EXCEPT ![w] = "Done"]
    /\ UNCHANGED << hrLister, informer, nEvents, queue, dirty, processing,
                    delayed, mutex, wkey, wret, wsyncErr, wevent >>
    /\ UNCHANGED << update, runVars, syncVars, libVars >>

\* processNextWorkItem: deferred c.releaseWorkqueue.Done(obj); a key that
\* was Added while it was processed goes back to the queue.
WorkerDone(w) ==
    /\ wpc[w] = "Done"
    /\ processing' = processing \ {wkey[w]}
    /\ queue' = IF wkey[w] \in dirty THEN Append(queue, wkey[w]) ELSE queue
    /\ wpc' = [wpc EXCEPT ![w] = "get"]
    /\ wkey' = [wkey EXCEPT ![w] = NoKey]
    /\ UNCHANGED << hrLister, informer, nEvents, dirty, delayed, failures,
                    mutex, wret, wsyncErr, wevent >>
    /\ UNCHANGED << update, runVars, syncVars, libVars >>

\* processNextWorkItem: Get reports shutdown once the queue is shutting down
\* and empty; processNextWorkItem returns false, runWorker returns, and
\* wait.Until does not call it again because stopCh is closed.
WorkerExit(w) ==
    /\ wpc[w] = "get"
    /\ shuttingDown
    /\ queue = << >>
    /\ wpc' = [wpc EXCEPT ![w] = "exited"]
    /\ UNCHANGED << hrLister, informer, nEvents, queue, dirty, processing,
                    delayed, failures, mutex, wkey, wret, wsyncErr, wevent >>
    /\ UNCHANGED << update, runVars, syncVars, libVars >>

(***************************************************************************)
(* Run: the workers are started (wg.Add(1) each), Run blocks on stopCh,    *)
(* then calls wg.Done once per worker and returns, which runs the deferred *)
(* ShutDown of the queue.                                                  *)
(***************************************************************************)
ctlFrame ==
    UNCHANGED << hrLister, informer, nEvents, queue, dirty, processing,
                 delayed, failures, mutex, wpc, wkey, wret, wsyncErr, wevent >>

\* the caller of Run closes the stop channel
CloseStopCh ==
    /\ ~stopCh
    /\ stopCh' = TRUE
    /\ UNCHANGED << rpc, wg, shuttingDown >>
    /\ ctlFrame
    /\ UNCHANGED << update, syncVars, libVars >>

\* Run: <-stopCh returns
RunReceiveStop ==
    /\ rpc = "stopCh"
    /\ stopCh
    /\ rpc' = "wg.Done"
    /\ UNCHANGED << stopCh, wg, shuttingDown >>
    /\ ctlFrame
    /\ UNCHANGED << update, syncVars, libVars >>

\* Run: for i := 0; i < threadiness; i++ { wg.Done() }
RunWgDone ==
    /\ rpc = "wg.Done"
    /\ wg' = wg - 1
    /\ rpc' = IF wg' = 0 THEN "ShutDown" ELSE rpc
    /\ UNCHANGED << stopCh, shuttingDown >>
    /\ ctlFrame
    /\ UNCHANGED << update, syncVars, libVars >>

\* Run returns: defer c.releaseWorkqueue.ShutDown()
RunShutDown ==
    /\ rpc = "ShutDown"
    /\ shuttingDown' = TRUE
    /\ rpc' = "returned"
    /\ UNCHANGED << stopCh, wg >>
    /\ ctlFrame
    /\ UNCHANGED << update, syncVars, libVars >>

(***************************************************************************)
(* Status writer (pkg/status): each call is one write of the status        *)
(* subresource.  sw is the pair of hr.Status and the writes made so far.   *)
(***************************************************************************)
\* SetStatusPhase: the phase is written; writing RolledBack records that a
\* rollback was observed.
SetStatusPhase(sw, phase) ==
    [status |-> [sw.status EXCEPT !.Phase = phase,
                                  !.RolledBack = IF phase = "RolledBack"
                                                 THEN TRUE ELSE @],
     writes |-> Append(sw.writes, phase)]

\* SetStatusPhaseWithRevision: the phase and lastAttemptedRevision
SetStatusPhaseWithRevision(sw, phase, revision) ==
    LET w == SetStatusPhase(sw, phase) IN
    [w EXCEPT !.status.LastAttemptedRevision = revision]

\* SetObservedGeneration: the generation-observed marker
SetObservedGeneration(sw, generation) ==
    [status |-> [sw.status EXCEPT !.ObservedGeneration = generation],
     writes |-> Append(sw.writes, ObservedGenerationWrite)]

\* HasSynced: the generation of the resource has been observed
HasSynced(h, st) == st.ObservedGeneration >= h.Generation

\* HasRolledBack: a rollback was observed for the release
HasRolledBack(h, st) == st.RolledBack

\* Status.AllowsUpgrade: no upgrade while the release is in a transient state
AllowsUpgrade(s) == s \notin {"pending-install", "pending-upgrade", "uninstalling"}

SW == [status |-> status, writes |-> writes]

Wrote(sw) ==
    /\ status' = sw.status
    /\ writes' = sw.writes

(***************************************************************************)
(* Release.Sync                                                            *)
(***************************************************************************)
NoError == << >>

\* Sync: r.helmClients.Load(...); without a client the phase Failed is
\* written and Sync returns before any defer is registered.
SyncLoadClient ==
    /\ spc = "Sync"
    /\ \E ok \in BOOLEAN :
         IF ok
         THEN /\ spc' = "prepareChart"
              /\ UNCHANGED << status, writes, err >>
         ELSE /\ Wrote(SetStatusPhase(SW, "Failed"))
              /\ err' = <<"no client found for Helm">>
              /\ spc' = "event"
    /\ UNCHANGED << hr, chart, action, curRel, newRel, errs, visited, calls, event, getResult, runDiff, latestRel, answers, warned >>
    /\ UNCHANGED << ctlVars, libVars >>

\* the error of the default case of prepareChart, and the error of a source
\* whose fetch, revision lookup or dependency update failed
NoValidChartSource == "could not find valid chart source configuration for release"
ChartFetchError == "chart unavailable"

\* prepareChart: the switch takes the first case whose source is configured,
\* in the order git, repo, customize, oss; the default case is an error.
SelectedSource(sources) ==
    IF "git" \in sources THEN "git"
    ELSE IF "repo" \in sources THEN "repo"
    ELSE IF "customize" \in sources THEN "customize"
    ELSE IF "oss" \in sources THEN "oss"
    ELSE "none"

\* prepareChart(client, hr): fetched is the outcome of the fetch of the
\* selected source, revision the revision it yields, gitChanged the answer
\* of export.ChangedFiles.  Returns the chart and whether it failed.
prepareChart(h, st, fetched, revision, gitChanged) ==
    LET kind == SelectedSource(h.sources) IN
    IF kind = "none"
    THEN [chart |-> NoChart, failed |-> TRUE, err |-> NoValidChartSource]
    ELSE IF ~fetched
    THEN [chart |-> NoChart, failed |-> TRUE, err |-> ChartFetchError]
    ELSE [chart |-> [revision |-> revision,
                     changed |-> IF kind = "git"
                                 THEN gitChanged
                                 ELSE st.LastAttemptedRevision # revision],
          failed |-> FALSE, err |-> ""]

\* SyncPrepareChart with the phase ChartFetched written whether or not the
\* chart changed
SyncPrepareChartAlwaysChartFetched ==
    /\ spc = "prepareChart"
    /\ \E fetched \in BOOLEAN, revision \in Revisions, gitChanged \in BOOLEAN :
         LET res == prepareChart(hr, status, fetched, revision, gitChanged) IN
         IF res.failed
         THEN /\ Wrote(SetStatusPhase(SW, "ChartFetchFailed"))
              /\ err' = <<"failed to prepare chart for release", res.err>>
              /\ spc' = "return"
              /\ UNCHANGED chart
         ELSE /\ chart' = res.chart
              /\ Wrote(SetStatusPhase(SW, "ChartFetched"))
              /\ spc' = "composeValues"
              /\ UNCHANGED err
    /\ UNCHANGED << hr, action, curRel, newRel, errs, visited, calls, event, getResult, runDiff, latestRel, answers, warned >>
    /\ UNCHANGED << ctlVars, libVars >>

\* Sync: chart, cleanup, err := r.prepareChart(client, hr)
SyncPrepareChart ==
    /\ spc = "prepareChart"
    /\ \E fetched \in BOOLEAN, revision \in Revisions, gitChanged \in BOOLEAN :
         LET res == prepareChart(hr, status, fetched, revision, gitChanged) IN
         IF res.failed
         THEN /\ Wrote(SetStatusPhase(SW, "ChartFetchFailed"))
              /\ err' = <<"failed to prepare chart for release", res.err>>
              /\ spc' = "return"
              /\ UNCHANGED chart
         ELSE /\ chart' = res.chart
              /\ IF res.chart.changed
                 THEN Wrote(SetStatusPhase(SW, "ChartFetched"))
                 ELSE UNCHANGED << status, writes >>
              /\ spc' = "composeValues"
              /\ UNCHANGED err
    /\ UNCHANGED << hr, action, curRel, newRel, errs, visited, calls, event, getResult, runDiff, latestRel, answers, warned >>
    /\ UNCHANGED << ctlVars, libVars >>

\* Sync: values, err = composeValues(r.coreV1Client, hr, chart.chartPath)
SyncComposeValues ==
    /\ spc = "composeValues"
    /\ \E ok \in BOOLEAN :
         IF ok
         THEN /\ spc' = "determineSyncAction"
              /\ UNCHANGED << status, writes, err >>
         ELSE /\ Wrote(SetStatusPhase(SW, "Failed"))
              /\ err' = <<"failed to compose values for release">>
              /\ spc' = "return"
    /\ UNCHANGED << hr, chart, action, curRel, newRel, errs, visited, calls, event, getResult, runDiff, latestRel, answers, warned >>
    /\ UNCHANGED << ctlVars, libVars >>

(***************************************************************************)
(* determineSyncAction                                                     *)
(***************************************************************************)
\* results of client.Get: an error, no release (nil), or a release
GetResults ==
    {[failed |-> TRUE, rel |-> NilRelease]}
        \cup {[failed |-> FALSE, rel |-> r] : r \in Releases \cup {NilRelease}}

\* results of converter.V2ReleaseExists
V2Results == [failed : BOOLEAN, exists : BOOLEAN]

\* results of client.History: an error, or the releases, most recent first
HistoryReleases ==
    [nil : {FALSE}, Version : Versions, Status : {"deployed", "failed", "superseded"},
     managedBy : {"self"}]
HistoryResults ==
    {[failed |-> TRUE, hist |-> << >>]}
        \cup {[failed |-> FALSE, hist |-> h] :
                h \in {<< >>} \cup {<<a>> : a \in HistoryReleases}
                        \cup {<<a, b>> : a \in HistoryReleases, b \in HistoryReleases}}

\* the history loop without its break: the last release that is failed or
\* superseded
LastFailedOrSuperseded(hist, rel) ==
    LET m == { i \in 1..Len(hist) : hist[i].Status \in {"failed", "superseded"} } IN
    IF m = {} THEN rel ELSE hist[CHOOSE i \in m : \A j \in m : j <= i]

\* for _, r := range hist: the first release that is failed or superseded
\* replaces curRel, which is kept when there is none
RECURSIVE FirstFailedOrSuperseded(_, _)
FirstFailedOrSuperseded(hist, rel) ==
    IF hist = << >> THEN rel
    ELSE IF Head(hist).Status \in {"failed", "superseded"} THEN Head(hist)
    ELSE FirstFailedOrSuperseded(Tail(hist), rel)

Decision(a, rel, e, cs) == [action |-> a, curRel |-> rel, err |-> e, calls |-> cs]

\* syncedAction with the test of HasSynced negated
syncedActionNegatedHasSynced(h, st, ch, rel, retry, history) ==
    IF HasSynced(h, st)
    THEN Decision(UpgradeAction, rel, NoError, <<"Get">>)
    ELSE IF ch.changed
    THEN Decision(UpgradeAction, rel, NoError, <<"Get">>)
    ELSE Decision(DryRunCompareAction, rel, NoError, <<"Get">>)

\* syncedAction with the rolled-back branch taken before the test of
\* HasSynced
syncedActionRolledBackFirst(h, st, ch, rel, retry, history) ==
    IF HasRolledBack(h, st)
    THEN IF ch.changed \/ retry
         THEN Decision(UpgradeAction, rel, NoError, <<"Get">>)
         ELSE IF history.failed
         THEN Decision(SkipAction, NilRelease,
                       <<"failed to retreive history for rolled back release">>,
                       <<"Get", "History">>)
         ELSE Decision(DryRunCompareAction,
                       FirstFailedOrSuperseded(history.hist, rel),
                       NoError, <<"Get", "History">>)
    ELSE IF ~HasSynced(h, st)
    THEN Decision(UpgradeAction, rel, NoError, <<"Get">>)
    ELSE IF ch.changed
    THEN Decision(UpgradeAction, rel, NoError, <<"Get">>)
    ELSE Decision(DryRunCompareAction, rel, NoError, <<"Get">>)

\* determineSyncAction, for an owned release that allows an upgrade: not
\* synced yet -> upgrade; rolled back -> upgrade when the chart changed or
\* the retry policy says so, else a dry-run against the first failed or
\* superseded release of the history; chart changed -> upgrade; else dry-run
syncedAction(h, st, ch, rel, retry, history) ==
    IF ~HasSynced(h, st)
    THEN Decision(UpgradeAction, rel, NoError, <<"Get">>)
    ELSE IF HasRolledBack(h, st)
    THEN IF ch.changed \/ retry
         THEN Decision(UpgradeAction, rel, NoError, <<"Get">>)
         ELSE IF history.failed
         THEN Decision(SkipAction, NilRelease,
                       <<"failed to retreive history for rolled back release">>,
                       <<"Get", "History">>)
         ELSE Decision(DryRunCompareAction,
                       FirstFailedOrSuperseded(history.hist, rel),
                       NoError, <<"Get", "History">>)
    ELSE IF ch.changed
    THEN Decision(UpgradeAction, rel, NoError, <<"Get">>)
    ELSE Decision(DryRunCompareAction, rel, NoError, <<"Get">>)

\* determineSyncAction without the ownership check
determineSyncActionIgnoringOwner(h, st, ch, get, v2, retry, history) ==
    IF get.failed
    THEN Decision(SkipAction, NilRelease, <<"failed to retrieve Helm release">>, <<"Get">>)
    ELSE IF get.rel.nil
    THEN Decision(InstallAction, NilRelease, NoError, <<"Get">>)
    ELSE IF ~AllowsUpgrade(get.rel.Status)
    THEN Decision(SkipAction, NilRelease,
                  <<"status of release does not allow a safe upgrade">>, <<"Get">>)
    ELSE syncedAction(h, st, ch, get.rel, retry, history)

\* determineSyncAction migrating whatever the Helm version of the resource
determineSyncActionMigratingAnyVersion(h, st, ch, get, v2, retry, history) ==
    IF get.failed
    THEN Decision(SkipAction, NilRelease, <<"failed to retrieve Helm release">>, <<"Get">>)
    ELSE IF get.rel.nil
    THEN IF h.migrate # "absent"
         THEN IF v2.failed
              THEN Decision(SkipAction, NilRelease,
                            <<"failed to retrieve Helm v2 release">>,
                            <<"Get", "V2ReleaseExists">>)
              ELSE IF v2.exists
              THEN Decision(MigrateAction, NilRelease, NoError, <<"Get", "V2ReleaseExists">>)
              ELSE Decision(InstallAction, NilRelease, NoError, <<"Get", "V2ReleaseExists">>)
         ELSE Decision(InstallAction, NilRelease, NoError, <<"Get">>)
    ELSE IF get.rel.managedBy = "error"
    THEN Decision(SkipAction, NilRelease,
                  <<"failed to determine ownership over release">>, <<"Get">>)
    ELSE IF get.rel.managedBy # "self"
    THEN Decision(SkipAction, NilRelease, <<"release appears to be managed by">>, <<"Get">>)
    ELSE IF ~AllowsUpgrade(get.rel.Status)
    THEN Decision(SkipAction, NilRelease,
                  <<"status of release does not allow a safe upgrade">>, <<"Get">>)
    ELSE syncedAction(h, st, ch, get.rel, retry, history)

\* determineSyncAction without the check of the status of the release
determineSyncActionWithoutStatusCheck(h, st, ch, get, v2, retry, history) ==
    IF get.failed
    THEN Decision(SkipAction, NilRelease, <<"failed to retrieve Helm release">>, <<"Get">>)
    ELSE IF get.rel.nil
    THEN IF h.migrate # "absent" /\ h.HelmVersion = "v3"
         THEN IF v2.failed
              THEN Decision(SkipAction, NilRelease,
                            <<"failed to retrieve Helm v2 release">>,
                            <<"Get", "V2ReleaseExists">>)
              ELSE IF v2.exists
              THEN Decision(MigrateAction, NilRelease, NoError, <<"Get", "V2ReleaseExists">>)
              ELSE Decision(InstallAction, NilRelease, NoError, <<"Get", "V2ReleaseExists">>)
         ELSE Decision(InstallAction, NilRelease, NoError, <<"Get">>)
    ELSE IF get.rel.managedBy = "error"
    THEN Decision(SkipAction, NilRelease,
                  <<"failed to determine ownership over release">>, <<"Get">>)
    ELSE IF get.rel.managedBy # "self"
    THEN Decision(SkipAction, NilRelease, <<"release appears to be managed by">>, <<"Get">>)
    ELSE syncedAction(h, st, ch, get.rel, retry, history)

\* determineSyncAction: client.Get, the v2 release of a release to migrate,
\* the ownership check, the status check, then the decision for a release
\* that can be upgraded
determineSyncAction(h, st, ch, get, v2, retry, history) ==
    IF get.failed
    THEN Decision(SkipAction, NilRelease, <<"failed to retrieve Helm release">>, <<"Get">>)
    ELSE IF get.rel.nil
    THEN IF h.migrate # "absent" /\ h.HelmVersion = "v3"
         THEN IF v2.failed
              THEN Decision(SkipAction, NilRelease,
                            <<"failed to retrieve Helm v2 release">>,
                            <<"Get", "V2ReleaseExists">>)
              ELSE IF v2.exists
              THEN Decision(MigrateAction, NilRelease, NoError, <<"Get", "V2ReleaseExists">>)
              ELSE Decision(InstallAction, NilRelease, NoError, <<"Get", "V2ReleaseExists">>)
         ELSE Decision(InstallAction, NilRelease, NoError, <<"Get">>)
    ELSE IF get.rel.managedBy = "error"
    THEN Decision(SkipAction, NilRelease,
                  <<"failed to determine ownership over release">>, <<"Get">>)
    ELSE IF get.rel.managedBy # "self"
    THEN Decision(SkipAction, NilRelease, <<"release appears to be managed by">>, <<"Get">>)
    ELSE IF ~AllowsUpgrade(get.rel.Status)
    THEN Decision(SkipAction, NilRelease,
                  <<"status of release does not allow a safe upgrade">>, <<"Get">>)
    ELSE syncedAction(h, st, ch, get.rel, retry, history)

\* the answers of the converter and of client.History are drawn only when
\* determineSyncAction asks for them
FailedV2 == [failed |-> TRUE, exists |-> FALSE]
FailedHistory == [failed |-> TRUE, hist |-> << >>]
Consulted(d, call) == \E i \in 1..Len(d.calls) : d.calls[i] = call

\* Sync: action, curRel, err = r.determineSyncAction(client, hr, chart); on
\* error the phase Failed is written and Sync returns, otherwise run starts.
SyncDetermineSyncAction ==
    /\ spc = "determineSyncAction"
    /\ \E get \in GetResults, retry \in BOOLEAN :
       LET d0 == determineSyncAction(hr, status, chart, get, FailedV2, retry,
                                     FailedHistory) IN
       \E v2 \in (IF Consulted(d0, "V2ReleaseExists") THEN V2Results ELSE {FailedV2}),
          history \in (IF Consulted(d0, "History") THEN HistoryResults
                                                   ELSE {FailedHistory}) :
         LET d == determineSyncAction(hr, status, chart, get, v2, retry, history) IN
         /\ getResult' = get
         /\ calls' = calls \o d.calls
         /\ action' = d.action
         /\ curRel' = d.curRel
         /\ IF d.err # NoError
            THEN /\ Wrote(SetStatusPhase(SW, "Failed"))
                 /\ err' = d.err
                 /\ spc' = "return"
            ELSE /\ spc' = "run"
                 /\ UNCHANGED << status, writes, err >>
    /\ UNCHANGED << hr, chart, newRel, errs, visited, event, runDiff, latestRel, answers, warned >>
    /\ UNCHANGED << ctlVars, libVars >>

(***************************************************************************)
(* Release.run: the action loop.  One step per case of the switch; a step  *)
(* either jumps to the next action (goto next) or leaves the switch, and   *)
(* run then returns errs, nil when it is empty.                            *)
(***************************************************************************)
runFrame == UNCHANGED << hr, chart, curRel, event, getResult, answers >> /\ UNCHANGED << ctlVars, libVars >>

\* goto next with another action
GotoNext(a) ==
    /\ action' = a
    /\ spc' = "run"
    /\ UNCHANGED err

\* leaving the switch: if errs.Empty() { return nil }; return errs
RunReturn(es) ==
    /\ spc' = "return"
    /\ err' = es
    /\ UNCHANGED action

\* install without the phase Installing written before the Helm call
installWithoutInstallingPhase(sw, ch, ok) ==
    IF ok THEN SetStatusPhaseWithRevision(sw, "Deployed", ch.revision)
          ELSE SetStatusPhaseWithRevision(sw, "DeployFailed", ch.revision)

\* install / upgrade: phase Installing or Upgrading with the revision, the
\* Helm call, then DeployFailed or Deployed
install(sw, ch, ok) ==
    LET w == SetStatusPhaseWithRevision(sw, "Installing", ch.revision) IN
    IF ok THEN SetStatusPhase(w, "Deployed") ELSE SetStatusPhase(w, "DeployFailed")

upgrade(sw, ch, ok) ==
    LET w == SetStatusPhaseWithRevision(sw, "Upgrading", ch.revision) IN
    IF ok THEN SetStatusPhase(w, "Deployed") ELSE SetStatusPhase(w, "DeployFailed")

\* migrate: phase Migrating with the revision, converter.Convert, then
\* Failed or Succeeded
migrate(sw, ch, ok) ==
    LET w == SetStatusPhaseWithRevision(sw, "Migrating", ch.revision) IN
    IF ok THEN SetStatusPhase(w, "Succeeded") ELSE SetStatusPhase(w, "Failed")

\* rollback with the phases of the two outcomes exchanged
rollbackPhasesExchanged(sw, ok) ==
    LET w == SetStatusPhase(sw, "RollingBack") IN
    IF ok THEN SetStatusPhase(w, "RollbackFailed") ELSE SetStatusPhase(w, "RolledBack")

\* rollback: phase RollingBack, client.Rollback, then RollbackFailed or
\* RolledBack
rollback(sw, ok) ==
    LET w == SetStatusPhase(sw, "RollingBack") IN
    IF ok THEN SetStatusPhase(w, "RolledBack") ELSE SetStatusPhase(w, "RollbackFailed")

\* test: phase Testing, client.Test, then TestFailed or Tested
test(sw, ok) ==
    LET w == SetStatusPhase(sw, "Testing") IN
    IF ok THEN SetStatusPhase(w, "Tested") ELSE SetStatusPhase(w, "TestFailed")

\* noChanges without the test of HasRolledBack
noChangesAlwaysSucceeded(sw, h) == SetStatusPhase(sw, "Succeeded")

\* DryRunCompareAction, empty diff: phase Succeeded unless the release has
\* been rolled back
noChanges(sw, h) ==
    IF ~HasRolledBack(h, sw.status)
    THEN SetStatusPhase(sw, "Succeeded")
    ELSE sw

\* case DryRunCompareAction
RunDryRunCompare ==
    /\ spc = "run" /\ action = DryRunCompareAction
    /\ visited' = Append(visited, action)
    /\ calls' = Append(calls, "UpgradeDryRun")
    /\ \E outcome \in {"error", "diff", "same"} :
         CASE outcome = "error" ->
                /\ Wrote(SetStatusPhase(SW, "Failed"))
                /\ errs' = Append(errs, "dry-run upgrade failed")
                /\ newRel' = "nil"
                /\ runDiff' = ""
                /\ RunReturn(errs')
           [] outcome = "diff" ->
                /\ newRel' = "UpgradeDryRun"
                /\ runDiff' = "diff"
                /\ GotoNext(UpgradeAction)
                /\ UNCHANGED << status, writes, errs >>
           [] outcome = "same" ->
                /\ newRel' = "UpgradeDryRun"
                /\ runDiff' = ""
                /\ Wrote(noChanges(SW, hr))
                /\ UNCHANGED errs
                /\ RunReturn(errs)
    /\ UNCHANGED << latestRel, warned >>
    /\ runFrame

\* case InstallAction leaving the switch on a failed install
RunInstallFailureBreaks ==
    /\ spc = "run" /\ action = InstallAction
    /\ visited' = Append(visited, action)
    /\ calls' = Append(calls, "Install")
    /\ \E ok \in BOOLEAN :
         /\ Wrote(install(SW, chart, ok))
         /\ IF ok
            THEN /\ newRel' = "Install"
                 /\ UNCHANGED errs
                 /\ GotoNext(TestAction)
            ELSE /\ newRel' = "nil"
                 /\ errs' = Append(errs, "installation failed")
                 /\ RunReturn(errs')
    /\ UNCHANGED << runDiff, latestRel, warned >>
    /\ runFrame

\* case InstallAction
RunInstall ==
    /\ spc = "run" /\ action = InstallAction
    /\ visited' = Append(visited, action)
    /\ calls' = Append(calls, "Install")
    /\ \E ok \in BOOLEAN :
         /\ Wrote(install(SW, chart, ok))
         /\ IF ok
            THEN /\ newRel' = "Install"
                 /\ UNCHANGED errs
                 /\ GotoNext(TestAction)
            ELSE /\ newRel' = "nil"
                 /\ errs' = Append(errs, "installation failed")
                 /\ GotoNext(UninstallAction)
    /\ UNCHANGED << runDiff, latestRel, warned >>
    /\ runFrame

\* case MigrateAction going on to Upgrade after a dry run as well
RunMigrateDryRunUpgrades ==
    /\ spc = "run" /\ action = MigrateAction
    /\ visited' = Append(visited, action)
    /\ LET dryRun == hr.migrate # "true" IN
       /\ calls' = Append(calls, IF dryRun THEN "ConvertDryRun" ELSE "Convert")
       /\ newRel' = "nil"
       /\ \E ok \in BOOLEAN :
            IF ok
            THEN /\ Wrote(migrate(SW, chart, TRUE))
                 /\ UNCHANGED errs
                 /\ GotoNext(UpgradeAction)
            ELSE /\ Wrote(SetStatusPhase(migrate(SW, chart, FALSE), "Failed"))
                 /\ errs' = Append(errs, "failed to convert helm chart from v2 to v3")
                 /\ RunReturn(errs')
    /\ UNCHANGED << runDiff, latestRel, warned >>
    /\ runFrame

\* case MigrateAction: a dry run unless the annotation is exactly "true"
RunMigrate ==
    /\ spc = "run" /\ action = MigrateAction
    /\ visited' = Append(visited, action)
    /\ LET dryRun == hr.migrate # "true" IN
       /\ calls' = Append(calls, IF dryRun THEN "ConvertDryRun" ELSE "Convert")
       /\ newRel' = "nil"
       /\ \E ok \in BOOLEAN :
            IF ok
            THEN /\ Wrote(migrate(SW, chart, TRUE))
                 /\ UNCHANGED errs
                 /\ GotoNext(IF dryRun THEN SkipAction ELSE UpgradeAction)
            ELSE /\ Wrote(SetStatusPhase(migrate(SW, chart, FALSE), "Failed"))
                 /\ errs' = Append(errs, "failed to convert helm chart from v2 to v3")
                 /\ RunReturn(errs')
    /\ UNCHANGED << runDiff, latestRel, warned >>
    /\ runFrame

\* case UpgradeAction going on to Annotate after a successful upgrade
RunUpgradeSuccessAnnotates ==
    /\ spc = "run" /\ action = UpgradeAction
    /\ visited' = Append(visited, action)
    /\ calls' = Append(calls, "Upgrade")
    /\ \E ok \in BOOLEAN :
         /\ Wrote(upgrade(SW, chart, ok))
         /\ IF ok
            THEN /\ newRel' = "Upgrade"
                 /\ UNCHANGED errs
                 /\ GotoNext(AnnotateAction)
            ELSE /\ newRel' = "nil"
                 /\ errs' = Append(errs, "upgrade failed")
                 /\ GotoNext(RollbackAction)
    /\ UNCHANGED << runDiff, latestRel, warned >>
    /\ runFrame

\* case UpgradeAction
RunUpgrade ==
    /\ spc = "run" /\ action = UpgradeAction
    /\ visited' = Append(visited, action)
    /\ calls' = Append(calls, "Upgrade")
    /\ \E ok \in BOOLEAN :
         /\ Wrote(upgrade(SW, chart, ok))
         /\ IF ok
            THEN /\ newRel' = "Upgrade"
                 /\ UNCHANGED errs
                 /\ GotoNext(TestAction)
            ELSE /\ newRel' = "nil"
                 /\ errs' = Append(errs, "upgrade failed")
                 /\ GotoNext(RollbackAction)
    /\ UNCHANGED << runDiff, latestRel, warned >>
    /\ runFrame

\* case TestAction going on to Rollback after every test failure that is not
\* ignored
RunTestFailureRollsBack ==
    /\ spc = "run" /\ action = TestAction
    /\ visited' = Append(visited, action)
    /\ UNCHANGED newRel
    /\ IF hr.Test.Enable
       THEN /\ calls' = Append(calls, "Test")
            /\ \E ok \in BOOLEAN :
                 IF ok
                 THEN /\ Wrote(SetStatusPhaseWithRevision(test(SW, TRUE),
                                                          "Succeeded", chart.revision))
                      /\ UNCHANGED errs
                      /\ GotoNext(AnnotateAction)
                 ELSE /\ errs' = Append(errs, "test failed")
                      /\ IF ~hr.Test.IgnoreFailures
                         THEN /\ Wrote(test(SW, FALSE))
                              /\ GotoNext(RollbackAction)
                         ELSE /\ Wrote(SetStatusPhaseWithRevision(test(SW, FALSE),
                                                                  "Succeeded", chart.revision))
                              /\ GotoNext(AnnotateAction)
       ELSE /\ Wrote(SetStatusPhaseWithRevision(SW, "Succeeded", chart.revision))
            /\ UNCHANGED << errs, calls >>
            /\ GotoNext(AnnotateAction)
    /\ UNCHANGED << runDiff, latestRel, warned >>
    /\ runFrame

\* case TestAction
RunTest ==
    /\ spc = "run" /\ action = TestAction
    /\ visited' = Append(visited, action)
    /\ UNCHANGED newRel
    /\ IF hr.Test.Enable
       THEN /\ calls' = Append(calls, "Test")
            /\ \E ok \in BOOLEAN :
                 IF ok
                 THEN /\ Wrote(SetStatusPhaseWithRevision(test(SW, TRUE),
                                                          "Succeeded", chart.revision))
                      /\ UNCHANGED errs
                      /\ GotoNext(AnnotateAction)
                 ELSE /\ errs' = Append(errs, "test failed")
                      /\ IF ~hr.Test.IgnoreFailures
                         THEN /\ Wrote(test(SW, FALSE))
                              /\ GotoNext(IF curRel.nil THEN UninstallAction
                                                        ELSE RollbackAction)
                         ELSE /\ Wrote(SetStatusPhaseWithRevision(test(SW, FALSE),
                                                                  "Succeeded", chart.revision))
                              /\ GotoNext(AnnotateAction)
       ELSE /\ Wrote(SetStatusPhaseWithRevision(SW, "Succeeded", chart.revision))
            /\ UNCHANGED << errs, calls >>
            /\ GotoNext(AnnotateAction)
    /\ UNCHANGED << runDiff, latestRel, warned >>
    /\ runFrame

\* case AnnotateAction with the error of annotate appended to errs
RunAnnotateFailureCollected ==
    /\ spc = "run" /\ action = AnnotateAction
    /\ visited' = Append(visited, action)
    /\ calls' = Append(calls, "Annotate")
    /\ \E ok \in BOOLEAN :
         /\ warned' = IF ok THEN warned ELSE Append(warned, "annotate")
         /\ errs' = IF ok THEN errs ELSE Append(errs, "annotate failed")
    /\ UNCHANGED << status, writes, newRel >>
    /\ RunReturn(errs')
    /\ UNCHANGED << runDiff, latestRel >>
    /\ runFrame

\* case AnnotateAction: an error of annotate is logged as a warning
RunAnnotate ==
    /\ spc = "run" /\ action = AnnotateAction
    /\ visited' = Append(visited, action)
    /\ calls' = Append(calls, "Annotate")
    /\ \E ok \in BOOLEAN :
         warned' = IF ok THEN warned ELSE Append(warned, "annotate")
    /\ UNCHANGED << status, writes, errs, newRel >>
    /\ RunReturn(errs)
    /\ UNCHANGED << runDiff, latestRel >>
    /\ runFrame

\* case RollbackAction with the upgrade tried again after a rollback
RunRollbackThenUpgrade ==
    /\ spc = "run" /\ action = RollbackAction
    /\ visited' = Append(visited, action)
    /\ IF hr.Rollback.Enable
       THEN \E latest \in GetResults :
              /\ latestRel' = latest
              /\ IF latest.failed
                 THEN /\ calls' = Append(calls, "GetLatest")
                      /\ errs' = Append(errs, "unable to determine if rollback should be performed")
                      /\ RunReturn(errs')
                      /\ UNCHANGED << status, writes, newRel >>
                 ELSE IF curRel.nil \/ latest.rel.nil
                 THEN /\ calls' = Append(calls, "GetLatest")
                      /\ spc' = "return"
                      /\ err' = <<"panic">>
                      /\ UNCHANGED << action, status, writes, newRel, errs >>
                 ELSE IF curRel.Version < latest.rel.Version
                 THEN /\ calls' = calls \o <<"GetLatest", "Rollback">>
                      /\ \E ok \in BOOLEAN :
                           /\ Wrote(rollback(SW, ok))
                           /\ IF ok
                              THEN /\ newRel' = "Rollback"
                                   /\ UNCHANGED errs
                                   /\ GotoNext(UpgradeAction)
                              ELSE /\ newRel' = "nil"
                                   /\ errs' = Append(errs, "rollback failed")
                                   /\ RunReturn(errs')
                 ELSE /\ calls' = Append(calls, "GetLatest")
                      /\ UNCHANGED << status, writes, newRel, errs >>
                      /\ RunReturn(errs)
       ELSE /\ UNCHANGED << status, writes, newRel, errs, calls, latestRel >>
            /\ RunReturn(errs)
    /\ UNCHANGED << runDiff, warned >>
    /\ runFrame

\* case RollbackAction: with rollback enabled the latest release is fetched
\* and curRel.Version < latestRel.Version is evaluated, which panics when
\* either release is nil; a rollback is run only when it is true.
RunRollback ==
    /\ spc = "run" /\ action = RollbackAction
    /\ visited' = Append(visited, action)
    /\ IF hr.Rollback.Enable
       THEN \E latest \in GetResults :
              /\ latestRel' = latest
              /\ IF latest.failed
                 THEN /\ calls' = Append(calls, "GetLatest")
                      /\ errs' = Append(errs, "unable to determine if rollback should be performed")
                      /\ RunReturn(errs')
                      /\ UNCHANGED << status, writes, newRel >>
                 ELSE IF curRel.nil \/ latest.rel.nil
                 THEN /\ calls' = Append(calls, "GetLatest")
                      /\ spc' = "return"
                      /\ err' = <<"panic">>
                      /\ UNCHANGED << action, status, writes, newRel, errs >>
                 ELSE IF curRel.Version < latest.rel.Version
                 THEN /\ calls' = calls \o <<"GetLatest", "Rollback">>
                      /\ \E ok \in BOOLEAN :
                           /\ Wrote(rollback(SW, ok))
                           /\ IF ok
                              THEN /\ newRel' = "Rollback"
                                   /\ UNCHANGED errs
                                   /\ GotoNext(AnnotateAction)
                              ELSE /\ newRel' = "nil"
                                   /\ errs' = Append(errs, "rollback failed")
                                   /\ RunReturn(errs')
                 ELSE /\ calls' = Append(calls, "GetLatest")
                      /\ UNCHANGED << status, writes, newRel, errs >>
                      /\ RunReturn(errs)
       ELSE /\ UNCHANGED << status, writes, newRel, errs, calls, latestRel >>
            /\ RunReturn(errs)
    /\ UNCHANGED << runDiff, warned >>
    /\ runFrame

\* case UninstallAction: an error of uninstall is logged as a warning; the
\* git mirror of a git chart source is deleted as well
RunUninstall ==
    /\ spc = "run" /\ action = UninstallAction
    /\ visited' = Append(visited, action)
    /\ calls' = calls \o (IF "git" \in hr.sources
                          THEN <<"Uninstall", "GitDelete">>
                          ELSE <<"Uninstall">>)
    /\ \E ok \in BOOLEAN :
         warned' = IF ok THEN warned ELSE Append(warned, "uninstall")
    /\ UNCHANGED << status, writes, errs, newRel >>
    /\ RunReturn(errs)
    /\ UNCHANGED << runDiff, latestRel >>
    /\ runFrame

\* Release.Uninstall(hr): without a Helm client for the version an error is
\* returned; otherwise run is called with UninstallAction, a nil curRel and
\* an empty chart, and what run returns is returned: no status is written.
ReleaseUninstall ==
    /\ spc = "Uninstall"
    /\ \E clientFound \in BOOLEAN :
         IF clientFound
         THEN /\ action' = UninstallAction
              /\ visited' = Append(visited, UninstallAction)
              /\ calls' = calls \o (IF "git" \in hr.sources
                                    THEN <<"Uninstall", "GitDelete">>
                                    ELSE <<"Uninstall">>)
              /\ \E ok \in BOOLEAN :
                   warned' = IF ok THEN warned ELSE Append(warned, "uninstall")
              /\ err' = errs
         ELSE /\ err' = <<"no client found for Helm">>
              /\ UNCHANGED << action, visited, calls, warned >>
    /\ spc' = "uninstalled"
    /\ UNCHANGED << status, writes, errs, newRel, runDiff, latestRel >>
    /\ runFrame

\* SkipAction has no case in the switch
RunSkip ==
    /\ spc = "run" /\ action = SkipAction
    /\ visited' = Append(visited, action)
    /\ UNCHANGED << status, writes, errs, newRel, calls >>
    /\ RunReturn(errs)
    /\ UNCHANGED << runDiff, latestRel, warned >>
    /\ runFrame

\* SyncReturn with SetObservedGeneration called on the error paths only
SyncReturnObservedOnError ==
    /\ spc = "return"
    /\ IF err # NoError
       THEN Wrote(SetObservedGeneration(SW, hr.Generation))
       ELSE UNCHANGED << status, writes >>
    /\ spc' = IF err = <<"panic">> THEN "panic" ELSE "event"
    /\ UNCHANGED << hr, chart, action, curRel, newRel, errs, err, visited, calls, event,
                    getResult, runDiff, latestRel, answers, warned >>
    /\ UNCHANGED << ctlVars, libVars >>

\* Sync returns: the deferred SetObservedGeneration(hr, hr.Generation) runs,
\* also while a panic unwinds, which then ends the process
SyncReturn ==
    /\ spc = "return"
    /\ Wrote(SetObservedGeneration(SW, hr.Generation))
    /\ spc' = IF err = <<"panic">> THEN "panic" ELSE "event"
    /\ UNCHANGED << hr, chart, action, curRel, newRel, errs, err, visited, calls, event,
                    getResult, runDiff, latestRel, answers, warned >>
    /\ UNCHANGED << ctlVars, libVars >>

\* syncHandler, after Sync: Warning FailedReleaseSync on an error, Normal
\* ReleaseSynced otherwise
SyncHandlerEvent ==
    /\ spc = "event"
    /\ event' = IF err # NoError THEN FailedReleaseSync ELSE ReleaseSynced
    /\ spc' = "done"
    /\ UNCHANGED << hr, status, chart, action, curRel, newRel, errs, err,
                    writes, visited, calls, getResult, runDiff, latestRel, answers, warned >>
    /\ UNCHANGED << ctlVars, libVars >>

Next ==
    \/ \E k \in CRs : AddFunc(k)
    \/ \E k \in CRs : UpdateFunc(k)
    \/ \E k \in CRs : DeleteFunc(k)
    \/ UninstallReturn
    \/ \E k \in CRs : DelayExpire(k)
    \/ \E w \in Workers : WorkerGet(w)
    \/ \E w \in Workers : SyncHandlerLock(w)
    \/ \E w \in Workers : SyncHandlerGet(w)
    \/ \E w \in Workers : SyncHandlerSync(w)
    \/ \E w \in Workers : SyncHandlerReturn(w)
    \/ \E w \in Workers : ProcessResult(w)
    \/ \E w \in Workers : WorkerDone(w)

Spec == Init /\ [][Next]_vars

\* SpecUpdate: the informer's handlers and the delay of the workqueue
\* before Run has started a worker, each update event kept in update
NextUpdate ==
    \/ \E k \in CRs : AddFunc(k)
    \/ \E k \in CRs : UpdateFuncObserved(k)
    \/ \E k \in CRs : DeleteFunc(k)
    \/ UninstallReturn
    \/ \E k \in CRs : DelayExpire(k)

SpecUpdate == Init /\ [][NextUpdate]_vars

\* SpecRun: the controller of Spec together with the shutdown of Run
NextRun ==
    \/ \E k \in CRs : AddFunc(k)
    \/ \E k \in CRs : UpdateFunc(k)
    \/ \E k \in CRs : DeleteFunc(k)
    \/ UninstallReturn
    \/ \E k \in CRs : DelayExpire(k)
    \/ \E w \in Workers : WorkerGet(w)
    \/ \E w \in Workers : SyncHandlerLock(w)
    \/ \E w \in Workers : SyncHandlerGet(w)
    \/ \E w \in Workers : SyncHandlerSync(w)
    \/ \E w \in Workers : SyncHandlerReturn(w)
    \/ \E w \in Workers : ProcessResult(w)
    \/ \E w \in Workers : WorkerDone(w)
    \/ \E w \in Workers : WorkerExit(w)
    \/ CloseStopCh
    \/ RunReceiveStop
    \/ RunWgDone
    \/ RunShutDown

SpecRun == Init /\ [][NextRun]_vars

\* SpecWorker: the workers and the shutdown of Run, started with one or
\* two items in the queue, each added once with AddRateLimited: keys of
\* CRs and the item that is no string
WorkQueues ==
    { <<i>> : i \in Items } \cup
    { <<i, j>> : i \in {NotAString}, j \in CRs } \cup
    { <<j, i>> : i \in {NotAString}, j \in CRs }

InQueue(q) == { q[n] : n \in 1..Len(q) }

InitWorker ==
    /\ hrLister \in SUBSET CRs
    /\ informer = Idle
    /\ nEvents = 0
    /\ queue \in WorkQueues
    /\ dirty = InQueue(queue)
    /\ processing = {}
    /\ delayed = {}
    /\ failures = [i \in Items |-> IF i \in InQueue(queue) THEN 1 ELSE 0]
    /\ mutex = [l \in LockNames |-> {}]
    /\ wpc = [w \in Workers |-> "get"]
    /\ wkey = [w \in Workers |-> NoKey]
    /\ wret = [w \in Workers |-> "nil"]
    /\ wsyncErr = [w \in Workers |-> FALSE]
    /\ wevent = [w \in Workers |-> NoEvent]
    /\ update = NoUpdate
    /\ stopCh = FALSE
    /\ rpc = "stopCh"
    /\ wg = Threadiness
    /\ shuttingDown = FALSE
    /\ SyncIdle
    /\ LibIdle

NextWorker ==
    \/ \E w \in Workers : WorkerGet(w)
    \/ \E w \in Workers : SyncHandlerLock(w)
    \/ \E w \in Workers : SyncHandlerGet(w)
    \/ \E w \in Workers : SyncHandlerSync(w)
    \/ \E w \in Workers : SyncHandlerReturn(w)
    \/ \E w \in Workers : ProcessResult(w)
    \/ \E w \in Workers : WorkerDone(w)
    \/ \E w \in Workers : WorkerExit(w)
    \/ CloseStopCh
    \/ RunReceiveStop
    \/ RunWgDone
    \/ RunShutDown

SpecWorker == InitWorker /\ [][NextWorker]_vars

(***************************************************************************)
(* SpecSync: syncHandler has obtained the lock and the HelmRelease and     *)
(* calls Sync on a copy of it.  The resource and its status are any the    *)
(* data model allows: a status is synced to at most the generation of the  *)
(* resource, and a rollback has been observed only if the phase is one     *)
(* that is written with or after RolledBack.                               *)
(***************************************************************************)
\* the phases a Sync can leave behind when it returns, and no phase at all
EndPhases ==
    { NoPhase, "Failed", "ChartFetchFailed", "Succeeded", "DeployFailed",
      "TestFailed", "RolledBack", "RollbackFailed" }

HelmReleases ==
    [Generation : 1..MaxGeneration,
     migrate : {"absent", "true", "other"},
     HelmVersion : {"v2", "v3"},
     Test : [Enable : BOOLEAN, IgnoreFailures : BOOLEAN],
     Rollback : [Enable : BOOLEAN],
     sources : ChartSourceConfigs]

Statuses(h) ==
    { st \in [Phase : EndPhases,
              ObservedGeneration : 0..h.Generation,
              LastAttemptedRevision : Revisions \cup {NoRevision},
              RolledBack : BOOLEAN] :
        st.RolledBack => st.Phase \in {"RolledBack", "Succeeded", "Failed",
                                       "ChartFetchFailed"} }


InitSync ==
    /\ ControllerIdle
    /\ LibIdle
    /\ spc = "Sync"
    /\ hr \in HelmReleases
    /\ status \in Statuses(hr)
    /\ chart = NoChart
    /\ action = NoAction
    /\ curRel = NilRelease
    /\ newRel = "nil"
    /\ errs = << >>
    /\ err = NoError
    /\ writes = << >>
    /\ visited = << >>
    /\ calls = << >>
    /\ event = NoEvent
    /\ getResult = NoGet
    /\ runDiff = ""
    /\ latestRel = NoGet
    /\ answers = NoAnswers
    /\ warned = << >>

NextSync ==
    \/ SyncLoadClient
    \/ SyncPrepareChart
    \/ SyncComposeValues
    \/ SyncDetermineSyncAction
    \/ RunDryRunCompare
    \/ RunInstall
    \/ RunMigrate
    \/ RunUpgrade
    \/ RunTest
    \/ RunAnnotate
    \/ RunRollback
    \/ RunUninstall
    \/ RunSkip
    \/ SyncReturn
    \/ SyncHandlerEvent

SpecSync == InitSync /\ [][NextSync]_vars

\* SpecRelease: the two entries of Release, Sync called by syncHandler and
\* Uninstall called by the Delete handler, for the same resources
InitUninstall ==
    /\ ControllerIdle
    /\ LibIdle
    /\ spc = "Uninstall"
    /\ hr \in HelmReleases
    /\ status \in Statuses(hr)
    /\ chart = NoChart
    /\ action = NoAction
    /\ curRel = NilRelease
    /\ newRel = "nil"
    /\ errs = << >>
    /\ err = NoError
    /\ writes = << >>
    /\ visited = << >>
    /\ calls = << >>
    /\ event = NoEvent
    /\ getResult = NoGet
    /\ runDiff = ""
    /\ latestRel = NoGet
    /\ answers = NoAnswers
    /\ warned = << >>

InitRelease == InitSync \/ InitUninstall

NextRelease ==
    \/ NextSync
    \/ ReleaseUninstall

SpecRelease == InitRelease /\ [][NextRelease]_vars

(***************************************************************************)
(* determineSyncAction as a function (SpecDecide): the resource, its       *)
(* status, the chart and the answers of the Helm client, of the converter  *)
(* and of the retry policy are drawn, and the function is applied to them. *)
(***************************************************************************)
DetermineSyncAction ==
    /\ spc = "determineSyncAction"
    /\ LET d == determineSyncAction(hr, status, chart, getResult,
                                    answers.v2ReleaseExists,
                                    answers.shouldRetryUpgrade, answers.hist) IN
         /\ action' = d.action
         /\ curRel' = d.curRel
         /\ err' = d.err
         /\ calls' = d.calls
    /\ spc' = "decided"
    /\ UNCHANGED << hr, status, chart, newRel, errs, writes, visited, event,
                    getResult, runDiff, latestRel, answers, warned >>
    /\ UNCHANGED << ctlVars, libVars >>

\* the answers determineSyncAction can ask for: the converter is asked only
\* when there is no release, the policy and the history only when there is
AnswersFor(get) ==
    IF get.failed \/ get.rel.nil
    THEN [v2ReleaseExists : V2Results, shouldRetryUpgrade : {FALSE},
          hist : {FailedHistory}]
    ELSE [v2ReleaseExists : {FailedV2}, shouldRetryUpgrade : BOOLEAN,
          hist : HistoryResults]

InitDecide ==
    /\ ControllerIdle
    /\ LibIdle
    /\ spc = "determineSyncAction"
    /\ hr \in { h \in HelmReleases :
                   /\ h.Test = [Enable |-> FALSE, IgnoreFailures |-> FALSE]
                   /\ ~h.Rollback.Enable
                   /\ h.sources = {"git"} }
    /\ status \in { st \in Statuses(hr) :
                       /\ st.Phase \in {"Succeeded", "RolledBack"}
                       /\ st.LastAttemptedRevision = "1.0.0" }
    /\ chart \in [revision : {"1.0.0"}, changed : BOOLEAN]
    /\ getResult \in GetResults
    /\ answers \in AnswersFor(getResult)
    /\ action = NoAction
    /\ curRel = NilRelease
    /\ newRel = "nil"
    /\ errs = << >>
    /\ err = NoError
    /\ writes = << >>
    /\ visited = << >>
    /\ calls = << >>
    /\ event = NoEvent
    /\ runDiff = ""
    /\ latestRel = NoGet
    /\ warned = << >>

NextDecide == DetermineSyncAction

SpecDecide == InitDecide /\ [][NextDecide]_vars

(***************************************************************************)
(* Post-renderer (getAppManagerPostRenderer): the handling of one document *)
(* of the rendered manifest.  Label and annotation maps are functions from *)
(* keys to values.                                                         *)
(***************************************************************************)
AppIdLabelKey == "oam.runtime.app.id"
ComponentIdLabelKey == "oam.runtime.component.id"
IstioEnableLabelKey == "istio-injection"
IstioEnableLabelValue == "enabled"
LogCollectAnnotateKey == "logCollect"

\* an assignment that removes a key already present
SetKeyOrDrop(m, key, value) ==
    IF key \in DOMAIN m
    THEN [k \in DOMAIN m \ {key} |-> m[k]]
    ELSE (key :> value) @@ m

\* m[key] = value on a map
SetKey(m, key, value) == (key :> value) @@ m

\* strconv.FormatBool
FormatBool(b) == IF b THEN "true" ELSE "false"

Workloads == { "StatefulSet", "Deployment" }

\* appInfoInject: the application and component ids are set in the selector
\* and in the template labels
appInfoInject(spec, target) ==
    [target EXCEPT
       !.matchLabels = SetKey(SetKey(@, AppIdLabelKey, spec.AppId),
                              ComponentIdLabelKey, spec.ComponentId),
       !.templateLabels = SetKey(SetKey(@, AppIdLabelKey, spec.AppId),
                                 ComponentIdLabelKey, spec.ComponentId)]

\* istioInject with the template labels left out
istioInjectSelectorOnly(target) ==
    [target EXCEPT
       !.matchLabels = SetKey(@, IstioEnableLabelKey, IstioEnableLabelValue)]

\* istioInject: istio-injection=enabled is set in the selector and in the
\* template labels
istioInject(target) ==
    [target EXCEPT
       !.matchLabels = SetKey(@, IstioEnableLabelKey, IstioEnableLabelValue),
       !.templateLabels = SetKey(@, IstioEnableLabelKey, IstioEnableLabelValue)]

\* the loop body up to the call of istioInjectHandle: top-level labels, the
\* logCollect annotation and appInfoInject for a StatefulSet or Deployment
Labelled(spec, doc) ==
    LET l == [doc EXCEPT
                !.labels = SetKey(SetKey(@, AppIdLabelKey, spec.AppId),
                                  ComponentIdLabelKey, spec.ComponentId)] IN
    IF doc.kind \in Workloads
    THEN appInfoInject(spec,
           [l EXCEPT !.annotations =
                SetKey(@, LogCollectAnnotateKey, FormatBool(spec.LogCollect))])
    ELSE l

renderFrame ==
    /\ UNCHANGED << rendered, pass, helmReleaseSpec, getFails, deleteFails >>
    /\ UNCHANGED << ctlVars, syncVars, ossVars >>

\* for _, u := range unstructuredList: labels, annotation, appInfoInject
RenderDocument ==
    /\ ppc = "document"
    /\ u' = Labelled(helmReleaseSpec, rendered)
    /\ ppc' = IF rendered.kind \in Workloads THEN "Get" ELSE "emit"
    /\ UNCHANGED << modified, live, inspected, deleted, polled, logged >>
    /\ renderFrame

\* a live object carries istio-injection=enabled in its template labels
HasIstioLabel(current) == current = "labelled"

\* istioInjectHandle: the live object is fetched from hr.Namespace under the
\* name of the target.  An error other than not-found returns the target
\* with the error; an absent object is injected when istioInject; an
\* existing object is deleted first when its label does not match.
IstioInjectHandleGet ==
    /\ ppc = "Get"
    /\ IF getFails
       THEN /\ logged' = Append(logged, "get")
            /\ ppc' = "emit"
            /\ UNCHANGED << u, inspected >>
       ELSE LET current == live[HrNamespace] IN
            /\ inspected' = Append(inspected, [namespace |-> HrNamespace,
                                                current |-> current])
            /\ UNCHANGED logged
            /\ IF current = "absent"
               THEN /\ u' = IF helmReleaseSpec.IstioEnabled THEN istioInject(u) ELSE u
                    /\ ppc' = "emit"
               ELSE IF helmReleaseSpec.IstioEnabled # HasIstioLabel(current)
               THEN /\ ppc' = "Delete"
                    /\ UNCHANGED u
               ELSE /\ u' = IF helmReleaseSpec.IstioEnabled THEN istioInject(u) ELSE u
                    /\ ppc' = "emit"
    /\ UNCHANGED << modified, live, deleted, polled >>
    /\ renderFrame

\* deleteOldRes returning right after an accepted Delete, without the wait
DeleteOldResWithoutWait ==
    /\ ppc = "Delete"
    /\ deleted' = Append(deleted, u.namespace)
    /\ IF deleteFails \/ u.namespace \notin LiveNamespaces
       THEN logged' = Append(logged, "delete")
       ELSE IF live[u.namespace] = "absent"
       THEN logged' = Append(logged, "delete")
       ELSE UNCHANGED logged
    /\ ppc' = "emit"
    /\ UNCHANGED << u, modified, live, inspected, polled >>
    /\ renderFrame

\* deleteOldRes: Delete is called in target.GetNamespace() under the name of
\* the target; its error is returned at once and the target is then returned
\* as it is, with the error.
DeleteOldResDelete ==
    /\ ppc = "Delete"
    /\ deleted' = Append(deleted, u.namespace)
    /\ IF deleteFails \/ u.namespace \notin LiveNamespaces
       THEN /\ logged' = Append(logged, "delete")
            /\ ppc' = "emit"
       ELSE IF live[u.namespace] = "absent"
       THEN /\ logged' = Append(logged, "delete")
            /\ ppc' = "emit"
       ELSE /\ ppc' = "poll"
            /\ UNCHANGED logged
    /\ UNCHANGED << u, modified, live, inspected, polled >>
    /\ renderFrame

\* deleteOldRes: the object is fetched every second until it is not found
\* or the 10 s of the context are over; istioInjectHandle then injects the
\* label when istioInject.
DeleteOldResPoll ==
    /\ ppc = "poll"
    /\ \E gone \in BOOLEAN :
         IF gone
         THEN /\ live' = [live EXCEPT ![u.namespace] = "absent"]
              /\ polled' = Append(polled, "gone")
         ELSE /\ UNCHANGED live
              /\ polled' = Append(polled, "timeout")
    /\ u' = IF helmReleaseSpec.IstioEnabled THEN istioInject(u) ELSE u
    /\ ppc' = "emit"
    /\ UNCHANGED << modified, inspected, deleted, logged >>
    /\ renderFrame

\* modifiedManifests.Write(yaml.Marshal(u.Object)); the renderer returns
\* modifiedManifests and a nil error
RenderEmit ==
    /\ ppc = "emit"
    /\ modified' = Append(modified, u)
    /\ ppc' = "emitted"
    /\ UNCHANGED << u, live, inspected, deleted, polled, logged >>
    /\ renderFrame

\* the renderer is run again, on the document it emitted
RenderAgain ==
    /\ ppc = "emitted"
    /\ pass = 1
    /\ pass' = 2
    /\ rendered' = modified[1]
    /\ u' = NoDoc
    /\ ppc' = "document"
    /\ inspected' = << >>
    /\ deleted' = << >>
    /\ polled' = << >>
    /\ logged' = << >>
    /\ UNCHANGED << helmReleaseSpec, modified, live, getFails, deleteFails >>
    /\ UNCHANGED << ctlVars, syncVars, ossVars >>

\* label maps a chart may render
NoLabels == << >>
IstioLabels == (IstioEnableLabelKey :> IstioEnableLabelValue)
OtherLabels == (IstioEnableLabelKey :> "disabled") @@ (AppIdLabelKey :> "old")

\* rendered documents: a workload or another kind, with the namespace the
\* chart renders (none, the namespace of the HelmRelease, or another one)
Documents ==
    [kind : {"Deployment", "StatefulSet", "Service"},
     namespace : {"", "ns1", "ns2"},
     labels : {NoLabels},
     annotations : {NoLabels, (LogCollectAnnotateKey :> "false")},
     matchLabels : {NoLabels, IstioLabels},
     templateLabels : {NoLabels, IstioLabels, OtherLabels}]

InitRender ==
    /\ ControllerIdle
    /\ SyncIdle
    /\ OssIdle
    /\ ppc = "document"
    /\ rendered \in Documents
    /\ pass = 1
    /\ helmReleaseSpec \in [AppId : {"app"}, ComponentId : {"comp"},
                            IstioEnabled : BOOLEAN, LogCollect : BOOLEAN]
    /\ u = NoDoc
    /\ modified = << >>
    /\ live \in [LiveNamespaces -> {"absent", "labelled", "unlabelled"}]
    /\ getFails \in BOOLEAN
    /\ deleteFails \in BOOLEAN
    /\ inspected = << >>
    /\ deleted = << >>
    /\ polled = << >>
    /\ logged = << >>

NextRender ==
    \/ RenderDocument
    \/ IstioInjectHandleGet
    \/ DeleteOldResDelete
    \/ DeleteOldResPoll
    \/ RenderEmit
    \/ RenderAgain

SpecRender == InitRender /\ [][NextRender]_vars

(***************************************************************************)
(* Object-store providers (aliImpl, huaweiImpl): DownloadFile, AckDecode   *)
(* and Decrypt.  A credential of an encrypted Oss is given by the form of  *)
(* its text:                                                               *)
(*   ciphertext      base64 of whole AES blocks that decrypt to the text   *)
(*                   followed by its padding                               *)
(*   notBase64       not a base64 text                                     *)
(*   partialBlock    base64 of bytes that do not fill whole blocks         *)
(*   trimOutOfRange  whole blocks whose last decrypted byte exceeds the    *)
(*                   length                                                *)
(*   trimInRange     whole blocks that were not produced from the text,    *)
(*                   whose last decrypted byte is within the length        *)
(***************************************************************************)
MaxCalls == 2

EncryptedForms == { "ciphertext", "notBase64", "partialBlock", "trimOutOfRange", "trimInRange" }

Encrypted(form, text) == [form |-> form, text |-> text]

Base64Error == "illegal base64 data"
ChartUnavailableError == "ChartUnavailableError"

\* AESDecrypt: the blocks are decrypted one by one and the result is cut at
\* len - last byte; a block beyond the input and a cut outside the slice are
\* run-time panics
AESDecrypt(encrypted) ==
    CASE encrypted.form = "ciphertext"     -> [panic |-> FALSE, decrypted |-> encrypted.text]
      [] encrypted.form = "trimInRange"    -> [panic |-> FALSE, decrypted |-> "garbage"]
      [] encrypted.form = "partialBlock"   -> [panic |-> TRUE, decrypted |-> ""]
      [] encrypted.form = "trimOutOfRange" -> [panic |-> TRUE, decrypted |-> ""]

\* Decrypt: a base64 error is returned; a panic of AESDecrypt is recovered
\* and logged by the deferred function, and Decrypt, whose results are not
\* named, then returns "" and a nil error
Decrypt(encrypted) ==
    IF encrypted.form = "notBase64"
    THEN [value |-> Plain(""), err |-> Base64Error]
    ELSE LET d == AESDecrypt(encrypted) IN
         IF d.panic
         THEN [value |-> Plain(""), err |-> "nil"]
         ELSE [value |-> Plain(d.decrypted), err |-> "nil"]

\* AckDecode with each credential assigned as soon as it is decrypted
AckDecodeAssigningEach(o) ==
    IF ~o.AckEncrypted
    THEN [oss |-> o, err |-> "nil"]
    ELSE LET ackId == Decrypt(o.AckId)
             ackSecret == Decrypt(o.AckSecret) IN
         IF ackId.err # "nil" THEN [oss |-> o, err |-> ackId.err]
         ELSE IF ackSecret.err # "nil"
         THEN [oss |-> [o EXCEPT !.AckId = ackId.value], err |-> ackSecret.err]
         ELSE [oss |-> [o EXCEPT !.AckId = ackId.value, !.AckSecret = ackSecret.value],
               err |-> "nil"]

\* AckDecode: both credentials are decrypted, and assigned only when both
\* decryptions returned no error
AckDecode(o) ==
    IF ~o.AckEncrypted
    THEN [oss |-> o, err |-> "nil"]
    ELSE LET ackId == Decrypt(o.AckId)
             ackSecret == Decrypt(o.AckSecret) IN
         IF ackId.err # "nil" THEN [oss |-> o, err |-> ackId.err]
         ELSE IF ackSecret.err # "nil" THEN [oss |-> o, err |-> ackSecret.err]
         ELSE [oss |-> [o EXCEPT !.AckId = ackId.value, !.AckSecret = ackSecret.value],
               err |-> "nil"]

ossFrame == UNCHANGED << ctlVars, syncVars, renderVars, hrSpecOss, useCache >>

\* a cache that is never used
CacheHitNever == FALSE

\* if useCache { _, err := os.Stat(cachePath); if err == nil { return } }
CacheHit == useCache /\ cacheFile

\* NewProvider on the Oss of a copy of the CR, then DownloadFile: with
\* useCache and the cache file present the cache path is returned at once
DownloadFile ==
    /\ opc \in {"DownloadFile", "returned"}
    /\ ncalls < MaxCalls
    /\ ncalls' = ncalls + 1
    /\ oss' = hrSpecOss
    /\ IF CacheHit
       THEN /\ results' = Append(results, "nil")
            /\ opc' = "returned"
       ELSE /\ opc' = "AckDecode"
            /\ UNCHANGED results
    /\ UNCHANGED << cacheFile, fetches, sdk >>
    /\ ossFrame

\* err := AckDecode(a.Oss); if err != nil { return "", err }
DownloadFileAckDecode ==
    /\ opc = "AckDecode"
    /\ LET res == AckDecode(oss) IN
         /\ oss' = res.oss
         /\ IF res.err # "nil"
            THEN /\ results' = Append(results, res.err)
                 /\ opc' = "returned"
            ELSE /\ opc' = "New"
                 /\ UNCHANGED results
    /\ UNCHANGED << cacheFile, ncalls, fetches, sdk >>
    /\ ossFrame

\* oss.New / obs.New with the credentials of the provider (and
\* client.Bucket); an error is returned as ChartUnavailableError
DownloadFileNew ==
    /\ opc = "New"
    /\ sdk' = Append(sdk, [call |-> ncalls, AckId |-> oss.AckId, AckSecret |-> oss.AckSecret])
    /\ \E failed \in BOOLEAN :
         IF failed
         THEN /\ results' = Append(results, ChartUnavailableError)
              /\ opc' = "returned"
         ELSE /\ opc' = "fetch"
              /\ UNCHANGED results
    /\ UNCHANGED << oss, cacheFile, ncalls, fetches >>
    /\ ossFrame

\* bucket.GetObjectToFile / client.DownloadFile: the object is fetched over
\* the network into the cache path
DownloadFileFetch ==
    /\ opc = "fetch"
    /\ \E failed \in BOOLEAN :
         /\ fetches' = Append(fetches, [call |-> ncalls, failed |-> failed])
         /\ IF failed
            THEN /\ results' = Append(results, ChartUnavailableError)
                 /\ UNCHANGED cacheFile
            ELSE /\ results' = Append(results, "nil")
                 /\ cacheFile' = TRUE
    /\ opc' = "returned"
    /\ UNCHANGED << oss, ncalls, sdk >>
    /\ ossFrame

\* the Oss of a CR: credentials in the clear, or encrypted in any form
OssSpecs ==
    { [AckEncrypted |-> FALSE, AckId |-> Plain("id"), AckSecret |-> Plain("secret")] }
    \cup [AckEncrypted : {TRUE},
          AckId : { Encrypted(f, "id") : f \in EncryptedForms },
          AckSecret : { Encrypted(f, "secret") : f \in EncryptedForms }]

InitOss ==
    /\ ControllerIdle
    /\ SyncIdle
    /\ RenderIdle
    /\ opc = "DownloadFile"
    /\ hrSpecOss \in OssSpecs
    /\ oss = hrSpecOss
    /\ useCache \in BOOLEAN
    /\ cacheFile \in BOOLEAN
    /\ ncalls = 0
    /\ fetches = << >>
    /\ sdk = << >>
    /\ results = << >>

NextOss ==
    \/ DownloadFile
    \/ DownloadFileAckDecode
    \/ DownloadFileNew
    \/ DownloadFileFetch

SpecOss == InitOss /\ [][NextOss]_vars

(***************************************************************************)
(* Properties of the providers (SpecOss)                                   *)
(***************************************************************************)
\* the calls that have returned
Returned == 1..Len(results)

\* call c performed a network fetch
Fetched(c) == \E i \in DOMAIN fetches : fetches[i].call = c

\* C18 as stated: with useCache the consecutive calls perform at most one
\* network fetch, whatever the first call returned; without useCache every
\* call performs a fetch.
C18_AtMostOneFetch ==
    /\ useCache => Len(fetches) <= 1
    /\ ~useCache => \A c \in Returned : Fetched(c)

\* C18 (amended): with useCache the consecutive calls perform at most one
\* successful fetch, and none after a call that returned the cache path; a
\* call whose fetch failed leaves no cache file.  Without useCache every
\* call performs a fetch unless it returns an error of the decoding of the
\* credentials or of the construction of the SDK client.
C18_AtMostOneSuccessfulFetch ==
    /\ useCache =>
          /\ Cardinality({ i \in DOMAIN fetches : ~fetches[i].failed }) <= 1
          /\ \A c \in Returned : \A d \in Returned :
                (c < d /\ results[c] = "nil") => ~Fetched(d)
    /\ \A i \in DOMAIN fetches : \A j \in DOMAIN fetches : fetches[i].call = fetches[j].call => i = j
    /\ ~useCache =>
          \A c \in Returned : Fetched(c) \/ results[c] \in {Base64Error, ChartUnavailableError}

C18_Witness ==
    /\ useCache
    /\ Len(results) = MaxCalls
    /\ Len(fetches) = 2
    /\ fetches[1].failed
    /\ ~fetches[2].failed
    /\ results[2] = "nil"

\* a credential of an encrypted Oss that does not decrypt to its text
DecryptionFails(encrypted) == encrypted.form # "ciphertext"

\* C19: the SDK is only called with decoded credentials: for an encrypted
\* Oss both credentials decrypt and the SDK receives their texts; a
\* credential whose decryption fails makes DownloadFile return an error
\* before any SDK call.
C19_DecryptionFailureReported ==
    \A i \in DOMAIN sdk :
        hrSpecOss.AckEncrypted =>
            /\ ~DecryptionFails(hrSpecOss.AckId)
            /\ ~DecryptionFails(hrSpecOss.AckSecret)
            /\ sdk[i].AckId = Plain(hrSpecOss.AckId.text)
            /\ sdk[i].AckSecret = Plain(hrSpecOss.AckSecret.text)

\* Decrypt returns an error for a credential of the encrypted Oss
DecryptReturnsError ==
    /\ hrSpecOss.AckEncrypted
    /\ \/ Decrypt(hrSpecOss.AckId).err # "nil"
       \/ Decrypt(hrSpecOss.AckSecret).err # "nil"

\* C40: when Decrypt returns an error for ackId or for ackSecret, neither
\* field of the Oss of the provider is modified, every DownloadFile that
\* does not return the cached file returns that error, and the SDK is never
\* called; with ackEncrypted=false both fields stay as they are.
C40_AckDecodeAllOrNothing ==
    /\ DecryptReturnsError =>
          /\ oss = hrSpecOss
          /\ sdk = << >>
          /\ \A i \in Returned :
                results[i] = IF CacheHit THEN "nil" ELSE Base64Error
    /\ ~hrSpecOss.AckEncrypted =>
          /\ oss = hrSpecOss
          /\ \A i \in DOMAIN sdk :
                sdk[i].AckId = hrSpecOss.AckId /\ sdk[i].AckSecret = hrSpecOss.AckSecret

C40_Witness ==
    /\ hrSpecOss.AckEncrypted
    /\ hrSpecOss.AckId.form = "ciphertext"
    /\ hrSpecOss.AckSecret.form = "notBase64"
    /\ opc = "returned"
    /\ results = <<Base64Error, Base64Error>>
    /\ oss = hrSpecOss
    /\ sdk = << >>

(***************************************************************************)
(* Properties of the post-renderer (SpecRender)                            *)
(***************************************************************************)
\* the document of the run is a StatefulSet or Deployment and the mesh step
\* is over
MeshStepOver == ppc = "emit" /\ rendered.kind \in Workloads

\* the live object of hr.Namespace as it was when the run began
LiveAtStart == IF inspected # << >> THEN inspected[1].current ELSE live[HrNamespace]

\* the live object exists and its istio-injection=enabled state differs
\* from spec.istioEnabled
LiveDiffers ==
    /\ LiveAtStart # "absent"
    /\ helmReleaseSpec.IstioEnabled # HasIstioLabel(LiveAtStart)

\* C15: for a StatefulSet or Deployment the live object is deleted, and its
\* disappearance waited for, exactly when it exists and its label state
\* differs from spec.istioEnabled; otherwise no delete is issued.
C15_DeleteExactlyWhenLiveDiffers ==
    MeshStepOver =>
        IF LiveDiffers
        THEN /\ Len(deleted) = 1
             /\ deleted[1] = HrNamespace
             /\ polled # << >>
        ELSE deleted = << >>

\* the document as the steps before the mesh step leave it
BeforeMeshStep == Labelled(helmReleaseSpec, rendered)

\* a document with istio-injection=enabled added to its selector and to its
\* template labels
WithMeshLabels(doc) ==
    [doc EXCEPT
       !.matchLabels = [k \in DOMAIN @ \cup {IstioEnableLabelKey} |->
                          IF k = IstioEnableLabelKey THEN IstioEnableLabelValue ELSE @[k]],
       !.templateLabels = [k \in DOMAIN @ \cup {IstioEnableLabelKey} |->
                             IF k = IstioEnableLabelKey THEN IstioEnableLabelValue ELSE @[k]]]

MeshInjects ==
    /\ helmReleaseSpec.IstioEnabled
    /\ inspected # << >>
    /\ logged = << >>

SecondRunOver == pass = 2 /\ ppc = "emitted"

\* C17: with the CR spec and the answers of the cluster unchanged, the
\* renderer run on its own output emits the document it was given.
C17_RenderIdempotent ==
    SecondRunOver => (Len(modified) = 2 /\ modified[2] = modified[1])

C17_Witness ==
    /\ SecondRunOver
    /\ modified[1].kind \in Workloads
    /\ helmReleaseSpec.IstioEnabled
    /\ IstioEnableLabelKey \in DOMAIN modified[2].templateLabels
    /\ modified[2].templateLabels[IstioEnableLabelKey] = IstioEnableLabelValue
    /\ deleted # << >>
    /\ polled # << >>

\* C38: every Delete the post-renderer issues is sent to the namespace in
\* which it read the template labels of the live object, under the same
\* name, the name of the rendered document.
C38_DeletesWhatItInspected ==
    \A i \in 1..Len(deleted) :
        /\ inspected # << >>
        /\ \A j \in 1..Len(inspected) : deleted[i] = inspected[j].namespace

\* the document of the run is about to be written, or has been
Emitting == ppc \in {"emit", "emitted"}

\* C29 as stated: the document is emitted only after every delete issued
\* was observed gone or its bounded wait expired, and an error of the Get,
\* of the delete or of the poll does not keep the render from emitting.
C29_EmitAfterEveryDeleteWaited ==
    /\ Emitting => (deleted # << >> => polled # << >>)
    /\ logged # << >> => Emitting
    /\ ppc = "emitted" => Len(modified) = pass

\* C29 (amended): the document is emitted only after every delete that was
\* accepted was observed gone or its bounded wait expired; a delete that
\* returned an error is logged and not waited for; an error of the Get, of
\* the delete or of the poll does not keep the render from emitting.
C29_EmitAfterAcceptedDeleteWaited ==
    /\ Emitting =>
          /\ Len(deleted) <= 1 /\ Len(polled) <= 1
          /\ deleted # << >> => (polled # << >>) # (logged = <<"delete">>)
          /\ \A i \in 1..Len(polled) : polled[i] \in {"gone", "timeout"}
    /\ logged # << >> => Emitting
    /\ ppc = "emitted" => Len(modified) = pass

\* a document emitted after the wait for a deleted object timed out
C29_Witness ==
    /\ ppc = "emitted"
    /\ Len(deleted) = 1
    /\ polled = <<"timeout">>
    /\ logged = << >>
    /\ Len(modified) = pass

(***************************************************************************)
(* Properties of the controller (Spec)                                     *)
(***************************************************************************)
InSync(w) == wpc[w] = "Sync"

\* C1: for every key at most one worker is inside Release.Sync, and a
\* worker inside Sync holds, alone, the lock named <namespace>-<name> of
\* its key.
C1_OneSyncPerKeyUnderLock ==
    /\ \A w1 \in Workers, w2 \in Workers :
         (InSync(w1) /\ InSync(w2) /\ wkey[w1] = wkey[w2]) => w1 = w2
    /\ \A w \in Workers : InSync(w) => mutex[LockOf(wkey[w])] = {w}

\* a worker is inside Sync while another worker waits for the same lock
C1_Witness ==
    \E w1 \in Workers, w2 \in Workers :
        /\ w1 # w2
        /\ InSync(w1)
        /\ wpc[w2] = "lock"
        /\ LockOf(wkey[w2]) = LockOf(wkey[w1])

\* C2: the Helm operations of two events on the same CR never overlap: the
\* Uninstall run by the Delete handler for a CR does not run while a worker
\* is inside Sync for that CR.
C2_NoOverlapOfHelmOperations ==
    \A w \in Workers :
        ~(InSync(w) /\ informer.handler = "Uninstall" /\ informer.key = wkey[w])

\* C3: when Sync returned an error for a key, the worker leaves the key for
\* retry: syncHandler hands the error to processNextWorkItem, so that Forget
\* is not called for the key.
C3_SyncErrorLeftForRetry ==
    \A w \in Workers :
        (wpc[w] \in {"result", "Done"} /\ wsyncErr[w]) => wret[w] = "err"

\* C5: once syncHandler has returned, on whichever path, the worker holds
\* no lock.
C5_LockReleasedOnReturn ==
    \A w \in Workers :
        wpc[w] \in {"result", "Done", "get"} => \A l \in LockNames : w \notin mutex[l]

\* syncHandler has returned after a Sync that failed, and the lock of the
\* key is free
C5_Witness ==
    \E w \in Workers :
        /\ wpc[w] = "result"
        /\ wsyncErr[w]
        /\ mutex[LockOf(wkey[w])] = {}

(***************************************************************************)
(* Properties of one reconciliation (SpecSync)                             *)
(***************************************************************************)
Contains(seq, x) == \E i \in 1..Len(seq) : seq[i] = x

\* the phases written, in order, without the observedGeneration marker
PhaseWrites == SelectSeq(writes, LAMBDA x : x # ObservedGenerationWrite)

\* Helm calls that change the release
MutatingCalls == { "Install", "Upgrade", "Rollback", "Uninstall", "Convert" }
NoMutatingCall == \A i \in 1..Len(calls) : calls[i] \notin MutatingCalls

\* the phases ChartFetched contributes before the decision
ChartFetchedWrite == IF chart.changed THEN <<"ChartFetched">> ELSE << >>

\* Sync has returned nil
SyncReturnedNil == spc \in {"event", "done"} /\ err = NoError

\* the decision was DryRunCompare and the dry run returned an empty diff
EmptyDiff ==
    /\ visited # << >>
    /\ visited[1] = DryRunCompareAction
    /\ newRel = "UpgradeDryRun"
    /\ runDiff = ""

\* determineSyncAction has returned and run has not started an action
Decided == spc \in {"run", "return"} /\ visited = << >> /\ calls # << >>

\* client.Get answered a release that the resource owns and whose status
\* allows an upgrade
OwnedUpgradable ==
    /\ ~getResult.failed
    /\ ~getResult.rel.nil
    /\ getResult.rel.managedBy = "self"
    /\ AllowsUpgrade(getResult.rel.Status)

SuccessPhases == { "Succeeded", "Deployed", "Tested", "RolledBack" }

\* C4 as stated: after every Sync that returns nil, observedGeneration is
\* the generation of the resource and the phase is one of Succeeded,
\* Deployed, Tested, RolledBack.
C4_SuccessfulSyncStatus ==
    SyncReturnedNil =>
        /\ status.ObservedGeneration = hr.Generation
        /\ status.Phase \in SuccessPhases

\* C4: after every Sync that returns nil, observedGeneration is the
\* generation of the resource, and the phase is one of Succeeded, Deployed,
\* Tested, RolledBack unless the run was a dry-run comparison with an empty
\* diff for a release that has been rolled back, which writes no phase.
C4_SuccessfulSyncStatusUnlessRolledBack ==
    SyncReturnedNil =>
        /\ status.ObservedGeneration = hr.Generation
        /\ \/ status.Phase \in SuccessPhases
           \/ /\ EmptyDiff
              /\ visited = <<DryRunCompareAction>>
              /\ HasRolledBack(hr, status)
              /\ PhaseWrites = << >>

\* Sync returned nil for a rolled-back release whose phase was Failed
C4_Witness ==
    /\ spc = "done"
    /\ err = NoError
    /\ EmptyDiff
    /\ status.RolledBack
    /\ status.Phase = "Failed"
    /\ status.ObservedGeneration = hr.Generation

\* the loop ended after the dry run, without a call that changes the release
NoOpTerminates ==
    EmptyDiff =>
        /\ spc \in {"return", "event", "done"}
        /\ visited = <<DryRunCompareAction>>
        /\ NoMutatingCall
        /\ errs = << >>

\* C6 as stated: with chart.changed = false and observedGeneration =
\* generation the decision is DryRunCompare, and with an empty diff the
\* loop terminates without side effects.
C6_UnchangedYieldsDryRunCompare ==
    /\ (Decided /\ ~chart.changed /\ status.ObservedGeneration = hr.Generation)
          => (spc = "run" /\ action = DryRunCompareAction)
    /\ NoOpTerminates

\* C6: with chart.changed = false and observedGeneration = generation, for
\* a current release that exists, is owned by the resource, has a status
\* that allows an upgrade and has not been rolled back, the decision is
\* DryRunCompare against that release; and with an empty diff the loop
\* terminates after the dry run without a mutating Helm call, writing no
\* phase other than Succeeded.
C6_UnchangedOwnedYieldsDryRunCompare ==
    /\ (/\ Decided
        /\ ~chart.changed
        /\ status.ObservedGeneration = hr.Generation
        /\ OwnedUpgradable
        /\ ~HasRolledBack(hr, status))
          => (spc = "run" /\ action = DryRunCompareAction /\ curRel = getResult.rel)
    /\ NoOpTerminates
    /\ EmptyDiff => PhaseWrites \in {<< >>, <<"Succeeded">>}

\* run has returned from a dry run with an empty diff for an owned release
\* that has not been rolled back
C6_Witness ==
    /\ spc = "return"
    /\ EmptyDiff
    /\ OwnedUpgradable
    /\ ~chart.changed
    /\ ~HasRolledBack(hr, status)
    /\ PhaseWrites = <<"Succeeded">>

\* a reconciliation that ended as a no-op resync
NoOpResync == spc = "done" /\ EmptyDiff

\* C7 as stated: a no-op resync makes no mutating Helm call, sets the phase
\* Succeeded and writes the phase exactly once.
C7_NoOpResyncWritesSucceededOnce ==
    NoOpResync =>
        /\ NoMutatingCall
        /\ status.Phase = "Succeeded"
        /\ Len(PhaseWrites) = 1

\* C7: a no-op resync makes no mutating Helm call; unless the release has
\* been rolled back it writes the phase Succeeded, once, and then
\* observedGeneration; for a rolled-back release it writes observedGeneration
\* only.
C7_NoOpResyncWrites ==
    NoOpResync =>
        /\ NoMutatingCall
        /\ writes = IF HasRolledBack(hr, status)
                    THEN <<ObservedGenerationWrite>>
                    ELSE <<"Succeeded", ObservedGenerationWrite>>

\* a no-op resync of a release that has not been rolled back
C7_Witness ==
    /\ NoOpResync
    /\ ~HasRolledBack(hr, status)
    /\ writes = <<"Succeeded", ObservedGenerationWrite>>
    /\ calls = <<"Get", "UpgradeDryRun">>

\* run has returned after an upgrade that failed, with rollback enabled and
\* a latest release newer than curRel, so that the rollback was called
FailedUpgradeRollback ==
    /\ spc = "return"
    /\ hr.Rollback.Enable
    /\ Contains(errs, "upgrade failed")
    /\ Contains(calls, "Rollback")

UpgradeRollbackAnnotate ==
    /\ Len(visited) >= 3
    /\ SubSeq(visited, Len(visited) - 2, Len(visited))
         = <<UpgradeAction, RollbackAction, AnnotateAction>>
    /\ writes # << >>
    /\ writes[Len(writes)] = "RolledBack"
    /\ err # NoError

\* C8 as stated: after a failed upgrade with rollback enabled and a newer
\* latest release, the loop visits Upgrade, Rollback, Annotate, the last
\* phase written is RolledBack and run returns a non-empty aggregate.
C8_FailedUpgradeRollsBack == FailedUpgradeRollback => UpgradeRollbackAnnotate

\* C8: after a failed upgrade with rollback enabled and a newer latest
\* release, when the Helm rollback succeeds, the loop visits Upgrade,
\* Rollback, Annotate, the last phase written is RolledBack and run returns
\* a non-empty aggregate.
C8_FailedUpgradeRollsBackWhenRollbackSucceeds ==
    (FailedUpgradeRollback /\ ~Contains(errs, "rollback failed"))
        => UpgradeRollbackAnnotate

\* the rollback after a failed upgrade succeeded and run has returned
C8_Witness ==
    /\ FailedUpgradeRollback
    /\ visited = <<UpgradeAction, RollbackAction, AnnotateAction>>
    /\ errs = <<"upgrade failed">>
    /\ status.Phase = "RolledBack"

\* a reconciliation that found no release, decided to install, has tests
\* disabled, and whose install succeeded
FreshInstall ==
    /\ spc = "done"
    /\ ~getResult.failed /\ getResult.rel.nil
    /\ visited # << >> /\ visited[1] = InstallAction
    /\ ~hr.Test.Enable
    /\ ~Contains(errs, "installation failed")

\* C9: a fresh install writes the phases Installing, Deployed, Succeeded in
\* this order, after ChartFetched when the chart changed, leaves
\* lastAttemptedRevision at the chart revision, returns nil from Sync and
\* records the event ReleaseSynced.
C9_FreshInstallPhases ==
    FreshInstall =>
        /\ PhaseWrites = ChartFetchedWrite \o <<"Installing", "Deployed", "Succeeded">>
        /\ status.LastAttemptedRevision = chart.revision
        /\ err = NoError
        /\ event = ReleaseSynced

\* a fresh install of a chart that changed
C9_Witness ==
    /\ FreshInstall
    /\ chart.changed
    /\ status.Phase = "Succeeded"
    /\ visited = <<InstallAction, TestAction, AnnotateAction>>

\* the case InstallAction has been run
InstallRun == visited # << >> /\ visited[1] = InstallAction

\* the last two phases written
LastTwoPhases == SubSeq(PhaseWrites, Len(PhaseWrites) - 1, Len(PhaseWrites))

\* C20: a failed install appends its error, the loop goes on to Uninstall
\* and then ends with a non-empty aggregate, the phases written last being
\* Installing and DeployFailed; a successful install goes on to Test.
C20_InstallOutcome ==
    InstallRun =>
        IF Contains(errs, "installation failed")
        THEN /\ errs = <<"installation failed">>
             /\ Len(visited) = 1 => (spc = "run" /\ action = UninstallAction)
             /\ Len(visited) >= 2 =>
                   /\ visited = <<InstallAction, UninstallAction>>
                   /\ spc \in {"return", "event", "done"}
                   /\ err = errs
                   /\ Contains(calls, "Uninstall")
             /\ Len(PhaseWrites) >= 2
             /\ LastTwoPhases = <<"Installing", "DeployFailed">>
        ELSE /\ Len(visited) = 1 => (spc = "run" /\ action = TestAction)
             /\ Len(visited) >= 2 => visited[2] = TestAction
             /\ Contains(PhaseWrites, "Deployed")

\* a failed install that was cleaned up by Uninstall
C20_Witness ==
    /\ InstallRun
    /\ spc = "done"
    /\ visited = <<InstallAction, UninstallAction>>
    /\ err = <<"installation failed">>
    /\ status.Phase = "DeployFailed"
    /\ event = FailedReleaseSync

\* the action that follows the i-th action of the loop: the next one visited
\* or, when the i-th is the last one visited and the loop goes on, the one
\* it goes on with
Follows(i, a) ==
    /\ Len(visited) > i => visited[i + 1] = a
    /\ Len(visited) = i => (spc = "run" /\ action = a)

\* the Helm test failed and its failure is not ignored
TestFailureNotIgnored ==
    Contains(errs, "test failed") /\ ~hr.Test.IgnoreFailures

\* Sync is over without a panic
SyncOver == spc \in {"event", "done"}

\* C21 as stated: a successful upgrade goes on to Test and then Annotate,
\* the final phase is Succeeded and lastAttemptedRevision is the chart
\* revision; a failed upgrade appends its error and goes on to Rollback.
C21_UpgradeThenTestThenAnnotate ==
    \A i \in 1..Len(visited) :
        visited[i] = UpgradeAction =>
            IF Contains(errs, "upgrade failed")
            THEN Follows(i, RollbackAction)
            ELSE /\ Follows(i, TestAction)
                 /\ Len(visited) > i => Follows(i + 1, AnnotateAction)
                 /\ SyncOver =>
                       /\ status.Phase = "Succeeded"
                       /\ status.LastAttemptedRevision = chart.revision

\* C21 (amended): a successful upgrade goes on to Test; when the test is
\* disabled, passes or its failure is ignored the loop goes on to Annotate,
\* the final phase is Succeeded and lastAttemptedRevision is the chart
\* revision, and when the test fails and failures are not ignored the loop
\* goes on to Rollback or Uninstall instead.  A failed upgrade appends its
\* error and goes on to Rollback.
C21_UpgradeThenTest ==
    \A i \in 1..Len(visited) :
        visited[i] = UpgradeAction =>
            IF Contains(errs, "upgrade failed")
            THEN Follows(i, RollbackAction)
            ELSE /\ Follows(i, TestAction)
                 /\ Len(visited) > i =>
                       IF TestFailureNotIgnored
                       THEN Follows(i + 1, IF curRel.nil THEN UninstallAction
                                                         ELSE RollbackAction)
                       ELSE /\ Follows(i + 1, AnnotateAction)
                            /\ status.Phase = "Succeeded"
                            /\ status.LastAttemptedRevision = chart.revision
                            /\ Len(visited) > i + 1 => Len(visited) = i + 2

\* an upgrade that succeeded, was tested and annotated
C21_Witness ==
    /\ spc = "done"
    /\ visited = <<UpgradeAction, TestAction, AnnotateAction>>
    /\ hr.Test.Enable
    /\ errs = << >>
    /\ status.Phase = "Succeeded"
    /\ status.LastAttemptedRevision = chart.revision
    /\ event = ReleaseSynced

\* rollback is enabled and the latest release is newer than curRel
RollbackDue ==
    /\ hr.Rollback.Enable
    /\ ~latestRel.failed
    /\ ~curRel.nil
    /\ ~latestRel.rel.nil
    /\ curRel.Version < latestRel.rel.Version

\* the loop ended with its i-th action and run returned its aggregate
TerminatesAt(i) ==
    /\ Len(visited) = i
    /\ spc \in {"return", "event", "done"}
    /\ err = errs

RollbackPhases == { "RollingBack", "RolledBack", "RollbackFailed" }

\* C22: a Helm rollback is invoked only if spec.rollback.enable is true and
\* the latest release is strictly newer than curRel; otherwise the loop
\* terminates with no rollback call and no phase write.  A successful
\* rollback goes on to Annotate; a failed one appends its error and
\* terminates with phase RollbackFailed.
C22_RollbackOnlyWhenDue ==
    \A i \in 1..Len(visited) :
        visited[i] = RollbackAction =>
            IF RollbackDue
            THEN /\ Contains(calls, "Rollback")
                 /\ IF Contains(errs, "rollback failed")
                    THEN TerminatesAt(i) /\ status.Phase = "RollbackFailed"
                    ELSE Follows(i, AnnotateAction)
            ELSE /\ ~Contains(calls, "Rollback")
                 /\ \A j \in 1..Len(PhaseWrites) : PhaseWrites[j] \notin RollbackPhases
                 /\ TerminatesAt(i)

\* the phases written since the test was started
SinceTesting ==
    LET n == Len(PhaseWrites)
        t == { j \in 1..n : PhaseWrites[j] = "Testing" } IN
    IF t = {} THEN << >>
    ELSE SubSeq(PhaseWrites, (CHOOSE j \in t : \A k \in t : k <= j), n)

\* C23: the Helm test runs only if spec.test.enable.  After a test failure
\* that is not ignored the loop goes on to Uninstall when there was no prior
\* release and to Rollback otherwise, and the phase Succeeded is not
\* written; after a test success, an ignored failure or a disabled test the
\* phase Succeeded is written with the chart revision and the loop goes on
\* to Annotate.
C23_TestOutcome ==
    \A i \in 1..Len(visited) :
        visited[i] = TestAction =>
            /\ Contains(calls, "Test") <=> hr.Test.Enable
            /\ Contains(errs, "test failed") => hr.Test.Enable
            /\ IF TestFailureNotIgnored
               THEN /\ Follows(i, IF curRel.nil THEN UninstallAction ELSE RollbackAction)
                    /\ ~Contains(SinceTesting, "Succeeded")
                    /\ Len(visited) = i => status.Phase = "TestFailed"
               ELSE /\ Follows(i, AnnotateAction)
                    /\ Contains(PhaseWrites, "Succeeded")
                    /\ status.Phase = "Succeeded"
                    /\ status.LastAttemptedRevision = chart.revision

\* a first release whose test failed and was uninstalled
C23_Witness ==
    /\ spc = "done"
    /\ visited = <<InstallAction, TestAction, UninstallAction>>
    /\ curRel.nil
    /\ hr.Test.Enable /\ ~hr.Test.IgnoreFailures
    /\ errs = <<"test failed">>
    /\ status.Phase = "TestFailed"

ConvertFailed == Contains(errs, "failed to convert helm chart from v2 to v3")

\* C24: the conversion runs for real only when the migrate annotation is
\* exactly "true", and the loop then goes on to Upgrade; for any other value
\* it runs as a dry run and the loop goes on to Skip, so that no install or
\* upgrade call follows; a conversion failure sets the phase Failed, appends
\* the error and terminates.
C24_MigrateOutcome ==
    \A i \in 1..Len(visited) :
        visited[i] = MigrateAction =>
            /\ Contains(calls, "Convert") <=> hr.migrate = "true"
            /\ Contains(calls, "ConvertDryRun") <=> hr.migrate # "true"
            /\ IF ConvertFailed
               THEN /\ TerminatesAt(i)
                    /\ status.Phase = "Failed"
                    /\ ~Contains(calls, "Upgrade") /\ ~Contains(calls, "Install")
               ELSE IF hr.migrate = "true"
               THEN Follows(i, UpgradeAction)
               ELSE /\ Follows(i, SkipAction)
                    /\ Len(visited) > i => TerminatesAt(i + 1)
                    /\ ~Contains(calls, "Upgrade") /\ ~Contains(calls, "Install")

\* a migration run as a dry run because the annotation is not "true"
C24_Witness ==
    /\ spc = "done"
    /\ hr.migrate = "other"
    /\ visited = <<MigrateAction, SkipAction>>
    /\ Contains(calls, "ConvertDryRun")
    /\ err = NoError

\* a reconciliation for which client.Get answered a release whose
\* antecedent is another resource, or whose ownership check failed
OwnershipConflict ==
    /\ spc = "done"
    /\ ~getResult.failed /\ ~getResult.rel.nil
    /\ getResult.rel.managedBy \in {"other", "error"}

\* C10 as stated: on an ownership conflict the decision is Skip, no
\* mutating Helm call is made, the event is FailedReleaseSync and the phase
\* is untouched: only observedGeneration is written.
C10_OwnershipConflictPhaseUntouched ==
    OwnershipConflict =>
        /\ action = SkipAction
        /\ NoMutatingCall
        /\ event = FailedReleaseSync
        /\ writes = <<ObservedGenerationWrite>>

\* C10: on an ownership conflict the decision is Skip, no action of the
\* loop runs and no mutating Helm call is made, the event is
\* FailedReleaseSync, and the phase Failed is written (after ChartFetched
\* when the chart changed), followed by observedGeneration.
C10_OwnershipConflictSkips ==
    OwnershipConflict =>
        /\ action = SkipAction
        /\ visited = << >>
        /\ NoMutatingCall
        /\ event = FailedReleaseSync
        /\ writes = ChartFetchedWrite \o <<"Failed", ObservedGenerationWrite>>

\* the release belongs to another resource and the reconciliation is over
C10_Witness ==
    /\ OwnershipConflict
    /\ getResult.rel.managedBy = "other"
    /\ err = <<"release appears to be managed by">>
    /\ status.Phase = "Failed"

(***************************************************************************)
(* Properties of the shutdown (SpecRun)                                    *)
(***************************************************************************)
\* the worker has dequeued an item and Done has not been called for it
InFlight(w) == wpc[w] \in {"lock", "lister", "Sync", "return", "result", "Done"}

\* C11: once Run has released the wait group, no worker is left with an
\* item that it dequeued and that is not Done.
C11_InFlightItemsDoneBeforeRelease ==
    wg = 0 => \A w \in Workers : ~InFlight(w)

(***************************************************************************)
(* Properties of prepareChart and of the events (SpecSync)                 *)
(***************************************************************************)
\* Sync has called prepareChart and prepareChart has returned
PrepareChartReturned ==
    /\ spc \notin {"idle", "Sync", "prepareChart"}
    /\ err # <<"no client found for Helm">>

\* C12: whenever the spec does not carry exactly one chart source, none or
\* two and more, prepareChart returns the error of no valid chart source.
C12_NotExactlyOneSourceIsAnError ==
    (PrepareChartReturned /\ Cardinality(hr.sources) # 1)
        => err = <<"failed to prepare chart for release", NoValidChartSource>>

\* prepareChart has returned an error to Sync
PrepareChartFailed == PrepareChartReturned /\ chart = NoChart

\* C13: when prepareChart fails, Sync writes the phase ChartFetchFailed,
\* returns an error and makes no decision and no Helm call; when it succeeds
\* with a changed chart, ChartFetched is the first phase written, once; with
\* an unchanged chart ChartFetched is not written.
C13_ChartFetchPhases ==
    /\ PrepareChartFailed =>
         /\ spc \in {"return", "event", "done"}
         /\ Len(err) = 2 /\ err[1] = "failed to prepare chart for release"
         /\ PhaseWrites = <<"ChartFetchFailed">>
         /\ action = NoAction /\ visited = << >> /\ calls = << >>
    /\ (PrepareChartReturned /\ ~PrepareChartFailed /\ chart.changed) =>
         /\ writes # << >> /\ writes[1] = "ChartFetched"
         /\ \A i \in 2..Len(writes) : writes[i] # "ChartFetched"
    /\ (PrepareChartReturned /\ ~PrepareChartFailed /\ ~chart.changed) =>
         ~Contains(writes, "ChartFetched")

\* the chart changed, and an action of the loop has written phases after
\* ChartFetched
C13_Witness ==
    /\ spc = "done"
    /\ chart.changed
    /\ visited # << >>
    /\ Len(PhaseWrites) >= 3
    /\ PhaseWrites[1] = "ChartFetched"

\* the syncHandler run that called Sync is over: the handler has returned,
\* or the panic of Sync has taken the worker down
SyncHandlerOver == spc \in {"done", "panic"}

\* C14: a syncHandler run that reaches Sync records exactly one event, none
\* before the handler is over: FailedReleaseSync if and only if Sync
\* returned an error, ReleaseSynced otherwise.
C14_ExactlyOneEvent ==
    /\ ~SyncHandlerOver => event = NoEvent
    /\ SyncHandlerOver =>
         event = (IF err # NoError THEN FailedReleaseSync ELSE ReleaseSynced)

\* client.Get answered a release whose status does not allow an upgrade
UpgradeDisallowed ==
    /\ ~getResult.failed
    /\ ~getResult.rel.nil
    /\ ~AllowsUpgrade(getResult.rel.Status)

\* C26: when the status of the current release does not allow an upgrade
\* the decision is Skip with an error, whatever the generation observed and
\* whether the chart changed, and the reconciliation issues no upgrade, not
\* even a dry run, against the release.
C26_DisallowedStatusSkips ==
    UpgradeDisallowed =>
        /\ action = SkipAction
        /\ err # NoError
        /\ spc \in {"return", "event", "done"}
        /\ visited = << >>
        /\ ~Contains(calls, "Upgrade")
        /\ ~Contains(calls, "UpgradeDryRun")
        /\ ~Contains(calls, "History")

\* an owned release in a pending upgrade, for a resource whose generation has
\* not been observed and whose chart changed
C26_Witness ==
    /\ UpgradeDisallowed
    /\ spc = "return"
    /\ getResult.rel.managedBy = "self"
    /\ ~HasSynced(hr, status)
    /\ chart.changed
    /\ err = <<"status of release does not allow a safe upgrade">>
    /\ status.Phase = "Failed"

(***************************************************************************)
(* Properties of determineSyncAction (SpecDecide)                          *)
(***************************************************************************)
\* determineSyncAction has been applied
DecisionReturned == spc = "decided"

\* client.Get answered that there is no release
NoCurrentRelease == DecisionReturned /\ ~getResult.failed /\ getResult.rel.nil

\* the resource carries the migrate annotation and its Helm version is v3
MigrationAsked == hr.migrate # "absent" /\ hr.HelmVersion = "v3"

\* C25: with no current release the decision is Migrate if and only if the
\* resource carries the migrate annotation, its Helm version is v3 and a v2
\* release of the name exists; in every other case without a lookup error
\* it is Install; the current release returned is nil.
C25_NoReleaseMigrateOrInstall ==
    NoCurrentRelease =>
        /\ curRel = NilRelease
        /\ IF MigrationAsked /\ answers.v2ReleaseExists.failed
           THEN action = SkipAction /\ err # NoError
           ELSE /\ err = NoError
                /\ action = (IF MigrationAsked /\ answers.v2ReleaseExists.exists
                             THEN MigrateAction ELSE InstallAction)

\* a migration decided for an annotation other than "true"
C25_Witness ==
    /\ NoCurrentRelease
    /\ hr.migrate = "other"
    /\ hr.HelmVersion = "v3"
    /\ answers.v2ReleaseExists = [failed |-> FALSE, exists |-> TRUE]
    /\ action = MigrateAction
    /\ curRel = NilRelease

\* client.Get answered a release that the resource owns and whose status
\* allows an upgrade
OwnedUpgradableRelease ==
    /\ DecisionReturned
    /\ ~getResult.failed
    /\ ~getResult.rel.nil
    /\ getResult.rel.managedBy = "self"
    /\ AllowsUpgrade(getResult.rel.Status)

\* C27: for an existing, owned, upgradable release whose resource has an
\* unobserved generation the decision is Upgrade of that release, whether or
\* not the chart changed or a rollback was observed, and the history of the
\* release is not fetched.
C27_UnsyncedGenerationUpgrades ==
    (OwnedUpgradableRelease /\ status.ObservedGeneration < hr.Generation) =>
        /\ action = UpgradeAction
        /\ err = NoError
        /\ curRel = getResult.rel
        /\ calls = <<"Get">>

\* an unobserved generation of a resource whose release was rolled back and
\* whose chart did not change
C27_Witness ==
    /\ OwnedUpgradableRelease
    /\ status.ObservedGeneration < hr.Generation
    /\ status.RolledBack
    /\ ~chart.changed
    /\ ~answers.shouldRetryUpgrade
    /\ ~answers.hist.failed
    /\ action = UpgradeAction

\* the entries of the history answered whose status is Failed or Superseded
FailedOrSupersededEntries ==
    { i \in 1..Len(answers.hist.hist) :
        answers.hist.hist[i].Status \in {"failed", "superseded"} }

\* C28: for a synced resource whose release was rolled back the decision is
\* Upgrade if the chart changed or the retry policy says so; otherwise it is
\* DryRunCompare against the first entry of the history, most recent first,
\* whose status is Failed or Superseded, or against the current release when
\* there is none; an error of the history fetch yields Skip with an error.
C28_RolledBackDecision ==
    (OwnedUpgradableRelease /\ HasSynced(hr, status) /\ HasRolledBack(hr, status)) =>
        IF chart.changed \/ answers.shouldRetryUpgrade
        THEN /\ action = UpgradeAction
             /\ err = NoError
             /\ curRel = getResult.rel
        ELSE IF answers.hist.failed
        THEN /\ action = SkipAction
             /\ err # NoError
        ELSE /\ action = DryRunCompareAction
             /\ err = NoError
             /\ Contains(calls, "History")
             /\ curRel = (IF FailedOrSupersededEntries = {}
                          THEN getResult.rel
                          ELSE answers.hist.hist[
                                 CHOOSE i \in FailedOrSupersededEntries :
                                   \A j \in FailedOrSupersededEntries : i <= j])

\* a dry run decided against the second entry of a history whose first
\* entry is deployed
C28_Witness ==
    /\ OwnedUpgradableRelease
    /\ HasSynced(hr, status)
    /\ HasRolledBack(hr, status)
    /\ ~chart.changed
    /\ ~answers.shouldRetryUpgrade
    /\ ~answers.hist.failed
    /\ Len(answers.hist.hist) = 2
    /\ FailedOrSupersededEntries = {2}
    /\ action = DryRunCompareAction
    /\ curRel = answers.hist.hist[2]
    /\ curRel # getResult.rel

(***************************************************************************)
(* Properties of the update handler (SpecUpdate)                           *)
(***************************************************************************)
\* C30: an update event is dropped, that is AddRateLimited is not called
\* for its key, exactly when its spec diff is empty and its status diff is
\* not; an update with a spec change, and a resync with neither a spec nor
\* a status change, are both enqueued; an update whose old or new object
\* is not a HelmRelease is dropped.
BothHelmReleases ==
    checkCustomResourceType(update.old) /\ checkCustomResourceType(update.new)
StatusOnlyUpdate ==
    update.old.Spec = update.new.Spec /\ update.old.Status # update.new.Status
C30_UpdateDroppedExactlyWhenStatusOnly ==
    update.handled =>
        /\ BothHelmReleases => (~update.enqueued <=> StatusOnlyUpdate)
        /\ BothHelmReleases /\ update.old.Spec # update.new.Spec
              => update.enqueued
        /\ BothHelmReleases /\ update.old = update.new => update.enqueued
        /\ ~BothHelmReleases => ~update.enqueued
C30_Witness ==
    /\ update.handled /\ BothHelmReleases /\ StatusOnlyUpdate
    /\ ~update.enqueued
    /\ \E k \in hrLister : failures[k] = 1

(***************************************************************************)
(* Properties of the warnings of run (SpecRelease)                         *)
(***************************************************************************)
\* run was entered from Sync and has returned without a panic
RunReturned ==
    /\ spc \in {"return", "event", "done"}
    /\ visited # << >>
    /\ err # <<"panic">>

FailurePhases ==
    {"Failed", "DeployFailed", "TestFailed", "RollbackFailed", "ChartFetchFailed"}

NoFailurePhase == \A i \in 1..Len(writes) : writes[i] \notin FailurePhases

\* C32: a failure of annotate or of uninstall is only logged: a run none of
\* whose other steps failed returns nil whether or not annotate failed, a
\* run that ends with the Uninstall action returns the one error that led
\* to it whether or not uninstall failed, and Release.Uninstall returns an
\* error exactly when no Helm client was found.
C32_AnnotateAndUninstallWarnOnly ==
    /\ (RunReturned /\ NoFailurePhase) => err = NoError
    /\ (RunReturned /\ visited[Len(visited)] = UninstallAction) => Len(err) = 1
    /\ RunReturned => \A i \in 1..Len(err) : err[i] \notin {"annotate failed", "uninstall failed"}
    /\ spc = "uninstalled" => (err # NoError <=> calls = << >>)
    /\ spc = "uninstalled" => writes = << >>

C32_Witness ==
    /\ spc = "done"
    /\ visited # << >>
    /\ visited[Len(visited)] = AnnotateAction
    /\ warned = <<"annotate">>
    /\ err = NoError
    /\ event = ReleaseSynced

(***************************************************************************)
(* Properties of the action loop as a whole (SpecSync)                     *)
(***************************************************************************)
Occurrences(seq, x) == Cardinality({ i \in 1..Len(seq) : seq[i] = x })

\* C33: in one run no action of the loop is executed more than once, so
\* the loop ends after at most five actions, and the run makes at most one
\* install or upgrade that is no dry run, at most one rollback and at most
\* one uninstall.
C33_NoActionTwice ==
    /\ \A i \in 1..Len(visited), j \in 1..Len(visited) :
          visited[i] = visited[j] => i = j
    /\ Len(visited) <= 5
    /\ Occurrences(calls, "Install") + Occurrences(calls, "Upgrade") <= 1
    /\ Occurrences(calls, "Rollback") <= 1
    /\ Occurrences(calls, "Uninstall") <= 1

C33_Witness ==
    /\ spc = "done"
    /\ visited = <<DryRunCompareAction, UpgradeAction, TestAction,
                   RollbackAction, AnnotateAction>>
    /\ Occurrences(calls, "Upgrade") = 1
    /\ Occurrences(calls, "Rollback") = 1

\* the Rollback case has fetched the latest release and compared the
\* version of curRel with its version
VersionsCompared ==
    /\ Contains(visited, RollbackAction)
    /\ hr.Rollback.Enable
    /\ ~latestRel.failed

\* C34: whenever the Rollback case, with rollback enabled, compares the
\* version of curRel with the version of the latest release, curRel is not
\* nil, also on the path Migrate, Upgrade (failed), Rollback.
C34_CurRelNotNilAtRollback == VersionsCompared => ~curRel.nil

\* C35: every invocation of Sync that has returned wrote the generation of
\* the resource as status.observedGeneration, and wrote it after every
\* phase it wrote.
C35_ObservedGenerationWrittenLast ==
    (spc \in {"event", "done"}) =>
        /\ writes # << >>
        /\ writes[Len(writes)] = ObservedGenerationWrite
        /\ status.ObservedGeneration = hr.Generation

\* the last phase this invocation of Sync wrote is Succeeded
LastPhaseSucceeded ==
    PhaseWrites # << >> /\ PhaseWrites[Len(PhaseWrites)] = "Succeeded"

\* C36: when the last phase an invocation of Sync wrote is Succeeded, Sync
\* returned nil and the event recorded is ReleaseSynced, also when a test
\* failed and its failure was ignored.
C36_SucceededMeansSynced ==
    (spc = "done" /\ LastPhaseSucceeded) =>
        (err = NoError /\ event = ReleaseSynced)

(***************************************************************************)
(* Properties of the worker loop (SpecWorker)                              *)
(***************************************************************************)
\* the item a worker obtained by Get and has not marked Done yet
Holds(w) == wpc[w] \notin {"get", "exited"}

WorkerLoopState ==
    /\ \A w \in Workers : Holds(w) <=> wkey[w] # NoKey
    /\ processing = { wkey[w] : w \in Workers } \ {NoKey}
    /\ \A w1 \in Workers, w2 \in Workers :
          (w1 # w2 /\ Holds(w1) /\ Holds(w2)) => wkey[w1] # wkey[w2]
    /\ \A w \in Workers :
          wkey[w] = NotAString =>
             /\ wpc[w] \in {"result", "Done"}
             /\ wevent[w] = NoEvent
             /\ ~wsyncErr[w]
             /\ \A l \in LockNames : w \notin mutex[l]
             /\ wpc[w] = "Done" => failures[NotAString] = 0
    /\ \A w \in Workers : wpc[w] = "exited" => shuttingDown

WorkerLoopStep ==
    \A w \in Workers :
        /\ (Holds(w) /\ wkey'[w] # wkey[w]) =>
               /\ wpc[w] = "Done"
               /\ wpc'[w] = "get"
               /\ wkey[w] \in processing
               /\ wkey[w] \notin processing'
        /\ (Holds(w) /\ wkey[w] \notin processing') => wkey'[w] = NoKey
        /\ (wpc[w] # "exited" /\ wpc'[w] = "exited") =>
               (wpc[w] = "get" /\ shuttingDown /\ queue = << >>)

\* C31: every item obtained by Get stays in processing until the worker
\* that holds it marks it Done, which it does once and whatever the item's
\* outcome; an item that is no string is Forgotten with no lock taken, no
\* Sync called and no event recorded; a worker stops only at Get, once the
\* queue is shutting down and empty, and so not after an item error.
C31_WorkerLoop == [] WorkerLoopState /\ [][WorkerLoopStep]_vars

C31_Witness ==
    \E w1 \in Workers, w2 \in Workers :
        /\ wpc[w1] = "Done" /\ wkey[w1] = NotAString
        /\ failures[NotAString] = 0
        /\ wpc[w2] = "Done" /\ wret[w2] = "err" /\ failures[wkey[w2]] = 1

(***************************************************************************)
(* Properties of the lock names (Spec)                                     *)
(***************************************************************************)
\* C39: distinct CRs have distinct lock-file names, so a worker that asks
\* for the lock of its CR never waits for a worker that holds the lock of
\* another CR.
C39_DistinctCRsDistinctLocks ==
    /\ \A k1 \in CRs, k2 \in CRs : k1 # k2 => LockOf(k1) # LockOf(k2)
    /\ \A w1 \in Workers, w2 \in Workers :
          (wpc[w1] = "lock" /\ w2 \in mutex[LockOf(wkey[w1])]) =>
              wkey[w2] = wkey[w1]

(***************************************************************************)
(* Properties of a failed lock (Spec)                                      *)
(***************************************************************************)
\* c.lock returned an error: syncHandler returns nil with no lock held, no
\* Sync called and no event recorded
LockFailureStep ==
    \A w \in Workers :
        (wpc[w] = "lock" /\ wpc'[w] = "result") =>
            /\ mutex' = mutex
            /\ wret'[w] = "nil"
            /\ wevent'[w] = NoEvent
            /\ ~wsyncErr'[w]

\* a nil return of syncHandler is followed by Forget
ForgetStep ==
    \A w \in Workers :
        (wpc[w] = "result" /\ wret[w] = "nil" /\ wpc'[w] = "Done") =>
            failures'[wkey[w]] = 0

\* Done puts back only a key that was added again meanwhile, and only an
\* informer event starts the delay of a key
RetryStep ==
    /\ \A w \in Workers :
          (wpc[w] = "Done" /\ wpc'[w] = "get" /\ wkey[w] \notin dirty) =>
              (queue' = queue /\ dirty' = dirty /\ delayed' = delayed)
    /\ \A k \in CRs :
          (k \in delayed' /\ k \notin delayed) => nEvents' = nEvents + 1
    /\ \A k \in CRs :
          (k \in dirty' /\ k \notin dirty) => (k \in delayed /\ k \notin delayed')

\* C37: when the lock of the key cannot be acquired syncHandler calls no
\* Sync, records no event and returns nil, the worker Forgets the key, and
\* the key comes back to the queue only after an informer event has
\* enqueued it again.
C37_LockFailureForgotten ==
    [][LockFailureStep /\ ForgetStep /\ RetryStep]_vars

\* after the Add event of a CR, and no other event, the worker that took
\* its key is about to mark it Done without having called Sync
C37_Witness ==
    \E w \in Workers :
        /\ nEvents = 1
        /\ hrLister = {wkey[w]}
        /\ wpc[w] = "Done"
        /\ wret[w] = "nil"
        /\ wevent[w] = NoEvent
        /\ failures[wkey[w]] = 0
        /\ wkey[w] \notin dirty
        /\ wkey[w] \notin delayed

====
